---- MODULE Spec2Model ----
(***************************************************************************)
(* Model of the weather dashboard: the request / cache / rate-limit layer  *)
(* (class WeatherAPI of js/weather.js, the optimized class, lines 7-656),  *)
(* the dashboard and the secure app that call it (js/app.js), and the      *)
(* weather proxy (api/weather.js).                                         *)
(*                                                                         *)
(* Time is the value Date.now() returns, in milliseconds.  The clock only  *)
(* moves forward, and the model samples it at the instants around the      *)
(* multiples of the durations the code compares against.                   *)
(*                                                                         *)
(* Twelve specifications share the variables:                              *)
(*   SpecCache      the cache under any sequence of set / get / clean      *)
(*                  calls                                                  *)
(*   SpecRate       checkRateLimit under any sequence of calls and ticks   *)
(*   SpecUrl        validateUrl applied to URL texts                       *)
(*   SpecClient     getCompleteWeatherData and searchCities calls in       *)
(*                  flight together, over the cache, the rate limiter      *)
(*                  and the network                                        *)
(*   SpecRetry      getCompleteWeatherData calls made one after the other  *)
(*   SpecSearch     searchCities calls in flight together, with the        *)
(*                  limits callers pass, around the debounce window        *)
(*   SpecUV         estimateUVIndex applied to latitudes, hours and months *)
(*   SpecRequest    makeRequest with its timeout timer                     *)
(*   SpecDashboard  the loads of WeatherDashboard over the client          *)
(*   SpecSecureApp  loadWeatherData and loadDefaultLocation of             *)
(*                  SecureWeatherApp over the client                       *)
(*   SpecSecureRate checkRateLimit of SecureWeatherService                 *)
(*   SpecProxy      the handler of the weather proxy                       *)
(***************************************************************************)
EXTENDS Integers, Sequences, FiniteSets, TLC

VARIABLES
    now,            \* the reading of Date.now()
    cache,          \* this.cache: a Map, kept as the sequence of its entries in insertion order
    requestCount,   \* this.requestCount
    requestWindow,  \* this.requestWindow
    ret,            \* observation: the last cache / rate-limit call and what it returned
    permits,        \* observation: the times of the calls checkRateLimit let through
    config,         \* window.CONFIG: the base URLs the constructor reads
    lastSearch,     \* this.lastSearchQuery, this.lastSearchTime, this.lastSearchResults
    calls,          \* the invocations of getCompleteWeatherData / searchCities and where each one is
    app             \* the objects around WeatherAPI: the dashboard, AppState, the secure service, the proxy

vars == <<now, cache, requestCount, requestWindow, ret, permits, config, lastSearch, calls, app>>

cacheVars == <<cache>>
rateVars == <<requestCount, requestWindow, permits>>
clientVars == <<config, lastSearch, calls, app>>

-----------------------------------------------------------------------------
(* Bounds of the model *)

MaxPeriods == 1     \* the clock is sampled up to this many multiples of a duration
MaxSkew == 1        \* ... and this many milliseconds after each multiple
MAX_CACHE_SIZE == 2 \* config.MAX_CACHE_SIZE (js/weather.js:19), kept small so that eviction happens
maxRequestsPerMinute == 2 \* config.API_RATE_LIMIT (js/weather.js:25), kept small so that the ceiling is hit

(* Program constants *)

CACHE_DURATION == 5 * 60 * 1000
oneMinute == 60 * 1000

NULL == "null"

-----------------------------------------------------------------------------
(* Helpers over sequences *)

Range(s) == {s[i] : i \in 1..Len(s)}

RemoveAt(s, i) ==
    IF i < 1 \/ i > Len(s) THEN s
    ELSE SubSeq(s, 1, i - 1) \o SubSeq(s, i + 1, Len(s))

\* Map.get / Map.has: the index of the entry stored under key, 0 when there is none
IndexOf(c, key) ==
    IF \E i \in 1..Len(c) : c[i].key = key
    THEN CHOOSE i \in 1..Len(c) : c[i].key = key
    ELSE 0

\* Map.delete(key)
MapDelete(c, key) == RemoveAt(c, IndexOf(c, key))

\* Map.set(key, entry): an existing key keeps its place in the iteration order
MapSet(c, key, entry) ==
    IF IndexOf(c, key) = 0
    THEN Append(c, entry)
    ELSE [c EXCEPT ![IndexOf(c, key)] = entry]

CacheKeysOf(c) == {c[i].key : i \in 1..Len(c)}

-----------------------------------------------------------------------------
(* Cache management *)

\* String.prototype.toLowerCase on the identifiers the model uses
toLowerCase(s) ==
    CASE s = "London" -> "london"
      [] s = "Paris" -> "paris"
      [] OTHER -> s

getCacheKey(type, identifier) == type \o "_" \o toLowerCase(identifier)

\* isCacheValid: cacheEntry && cacheEntry.timestamp && (Date.now() - timestamp < CACHE_DURATION)
\* a timestamp of 0 is falsy
isCacheValidLate(c, key, t) ==
    /\ IndexOf(c, key) # 0
    /\ c[IndexOf(c, key)].timestamp # 0
    /\ t - c[IndexOf(c, key)].timestamp <= CACHE_DURATION

isCacheValid(c, key, t) ==
    /\ IndexOf(c, key) # 0
    /\ c[IndexOf(c, key)].timestamp # 0
    /\ t - c[IndexOf(c, key)].timestamp < CACHE_DURATION

\* getCachedData: the value returned (hit is FALSE when it is null) and the
\* cache it leaves.  The counters cacheHits / cacheMisses it increments are
\* read nowhere and are left out.
getCachedData(c, key, t) ==
    IF isCacheValid(c, key, t)
    THEN [hit |-> TRUE, result |-> c[IndexOf(c, key)].data, cache |-> c]
    ELSE [hit |-> FALSE, result |-> NULL,
          cache |-> IF IndexOf(c, key) # 0 THEN MapDelete(c, key) ELSE c]

\* the index of the entry evictOldestCacheEntry picks: the first one, in
\* iteration order, whose timestamp is strictly below all earlier ones
OldestIndex(c) ==
    IF Len(c) = 0 THEN 0
    ELSE CHOOSE i \in 1..Len(c) :
            /\ \A j \in 1..Len(c) : c[i].timestamp <= c[j].timestamp
            /\ \A j \in 1..(i - 1) : c[j].timestamp > c[i].timestamp

NewestIndex(c) ==
    IF Len(c) = 0 THEN 0
    ELSE CHOOSE i \in 1..Len(c) :
            /\ \A j \in 1..Len(c) : c[i].timestamp >= c[j].timestamp
            /\ \A j \in 1..(i - 1) : c[j].timestamp < c[i].timestamp

evictNewestCacheEntry(c) ==
    IF NewestIndex(c) # 0 /\ c[NewestIndex(c)].key # ""
    THEN RemoveAt(c, NewestIndex(c))
    ELSE c

\* evictOldestCacheEntry: `if (oldestKey)` skips the delete for a falsy key
evictOldestCacheEntry(c) ==
    IF OldestIndex(c) # 0 /\ c[OldestIndex(c)].key # ""
    THEN RemoveAt(c, OldestIndex(c))
    ELSE c

setCachedDataNoEvict(c, key, data, t) ==
    MapSet(IF Len(c) > MAX_CACHE_SIZE THEN evictOldestCacheEntry(c) ELSE c,
           key, [key |-> key, data |-> data, timestamp |-> t])

\* setCachedData: evict when the map is at capacity, then Map.set
setCachedData(c, key, data, t) ==
    MapSet(IF Len(c) >= MAX_CACHE_SIZE THEN evictOldestCacheEntry(c) ELSE c,
           key, [key |-> key, data |-> data, timestamp |-> t])

\* cleanCache: delete the entries with now - timestamp > CACHE_DURATION
cleanCache(c, t) ==
    SelectSeq(c, LAMBDA e : ~(t - e.timestamp > CACHE_DURATION))

-----------------------------------------------------------------------------
(* Rate limiting *)

\* checkRateLimit: ok is FALSE when it throws; count and window are the
\* fields it leaves (the lazy reset is kept when it throws)
checkRateLimitLoose(count, window, t) ==
    LET expired == t - window > oneMinute
        c0 == IF expired THEN 0 ELSE count
        w0 == IF expired THEN t ELSE window
    IN  IF c0 > maxRequestsPerMinute
        THEN [ok |-> FALSE, requestCount |-> c0, requestWindow |-> w0]
        ELSE [ok |-> TRUE, requestCount |-> c0 + 1, requestWindow |-> w0]

\* checkRateLimit that counts a call before it decides to refuse it
checkRateLimitCountsRefusals(count, window, t) ==
    LET expired == t - window > oneMinute
        c0 == IF expired THEN 0 ELSE count
        w0 == IF expired THEN t ELSE window
    IN  IF c0 >= maxRequestsPerMinute
        THEN [ok |-> FALSE, requestCount |-> maxRequestsPerMinute + 1, requestWindow |-> w0]
        ELSE [ok |-> TRUE, requestCount |-> c0 + 1, requestWindow |-> w0]

checkRateLimit(count, window, t) ==
    LET expired == t - window > oneMinute
        c0 == IF expired THEN 0 ELSE count
        w0 == IF expired THEN t ELSE window
    IN  IF c0 >= maxRequestsPerMinute
        THEN [ok |-> FALSE, requestCount |-> c0, requestWindow |-> w0]
        ELSE [ok |-> TRUE, requestCount |-> c0 + 1, requestWindow |-> w0]

-----------------------------------------------------------------------------
(* URLs and their validation *)

\* The text of a URL, kept as its parts: the text is
\*   scheme ++ (IF authority THEN "//" ++ host labels joined by "." ELSE "") ++ path parts
\* scheme is "" when the text has none; host is a sequence of labels, <<>>
\* when the text has no authority.
UrlText(scheme, authority, host, path) ==
    [scheme |-> scheme, authority |-> authority, host |-> host, path |-> path]

\* window.location.hostname: the host the page is served from
LocationHostname == <<"dashboard", "vercel", "app">>

\* new URL(url), without a base: throws (ok = FALSE) for a text with no
\* scheme and for an http(s) text with an empty host; hostname is "" for the
\* schemes that carry no host
ParseUrl(url) ==
    IF url.scheme = "" THEN [ok |-> FALSE, protocol |-> "", hostname |-> <<>>]
    ELSE IF url.scheme \in {"https:", "http:"}
    THEN IF url.authority /\ url.host # <<>>
         THEN [ok |-> TRUE, protocol |-> url.scheme, hostname |-> url.host]
         ELSE [ok |-> FALSE, protocol |-> "", hostname |-> <<>>]
    ELSE [ok |-> TRUE, protocol |-> url.scheme, hostname |-> <<>>]

\* hostname.endsWith('.' + host)
EndsWithDot(hostname, host) ==
    /\ Len(hostname) > Len(host)
    /\ SubSeq(hostname, Len(hostname) - Len(host) + 1, Len(hostname)) = host

allowedHosts ==
    << <<"localhost">>, <<"127.0.0.1">>, <<"api", "openweathermap", "org">>,
       <<"openweathermap", "org">>, LocationHostname >>

HostAllowed(hostname) ==
    \E i \in 1..Len(allowedHosts) :
        hostname = allowedHosts[i] \/ EndsWithDot(hostname, allowedHosts[i])

\* url.toLowerCase().includes(pattern) for '../', '..%2f', 'file:', 'data:'
suspiciousParts == {"/../", "/..%2f", "/..%2F", "?src=file:", "?src=data:"}

Suspicious(url) ==
    \/ url.scheme \in {"file:", "data:"}
    \/ \E i \in 1..Len(url.path) : url.path[i] \in suspiciousParts

\* the path parts of the model that begin with '/'
slashParts ==
    {"/data/2.5", "/geo/1.0", "/data/2.5/weather", "/api/weather", "/api", "/geo",
     "/secret", "/weather", "/forecast", "/direct", "/geocoding", "/../", "/..%2f", "/..%2F"}

\* url.startsWith('/')
StartsWithSlash(url) ==
    /\ url.scheme = ""
    /\ \/ url.authority
       \/ (Len(url.path) > 0 /\ url.path[1] \in slashParts)

\* validateUrl: TRUE when it returns, FALSE when it throws.  The throws of
\* the try block (parse failure, hostname, suspicious pattern) all land in
\* the catch, which lets every text starting with '/' through.
validateUrl(url) ==
    \/ /\ ParseUrl(url).ok
       /\ HostAllowed(ParseUrl(url).hostname)
       /\ ~Suspicious(url)
    \/ StartsWithSlash(url)

\* the host a fetch of the text goes to: a text with no authority is
\* resolved against the page
TargetHost(url) == IF url.authority THEN url.host ELSE LocationHostname

\* the scheme a fetch of the text uses: a text with no scheme takes the page's
PageProtocol == "https:"
TargetProtocol(url) == IF url.scheme = "" THEN PageProtocol ELSE url.scheme

-----------------------------------------------------------------------------
(* Requests *)

API_KEY == "ecd10e5059b846b4977031d32d044f69"

\* the values config.OPENWEATHER_BASE_URL / OPENWEATHER_GEOCODING_URL take:
\* the provider (the defaults), the serverless proxy, and a host that is
\* not on the allow-list
Configs == {"direct", "proxy", "foreign"}

BASE_URL(cfg) ==
    CASE cfg = "direct" -> UrlText("https:", TRUE, <<"api", "openweathermap", "org">>, <<"/data/2.5">>)
      [] cfg = "proxy" -> UrlText("", FALSE, <<>>, <<"/api">>)
      [] cfg = "foreign" -> UrlText("https:", TRUE, <<"weather", "example", "com">>, <<"/data/2.5">>)

GEOCODING_URL(cfg) ==
    CASE cfg = "direct" -> UrlText("https:", TRUE, <<"api", "openweathermap", "org">>, <<"/geo/1.0">>)
      [] cfg = "proxy" -> UrlText("", FALSE, <<>>, <<"/api">>)
      [] cfg = "foreign" -> UrlText("https:", TRUE, <<"weather", "example", "com">>, <<"/geo/1.0">>)

\* url.includes('openweathermap.org')
IncludesOpenWeatherMap(url) ==
    \E i \in 1..(Len(url.host) - 1) : url.host[i] = "openweathermap" /\ url.host[i + 1] = "org"

\* encodeURIComponent on the names the model uses
encodeURIComponent(s) ==
    CASE s = "New York" -> "New%20York"
      [] OTHER -> s

\* `${base}${path}?${query}`
UrlAppend(base, path, query) == [base EXCEPT !.path = base.path \o <<path, query>>]

\* the text `${lat},${lon}`
CoordText(lat, lon) == ToString(lat) \o "," \o ToString(lon)

CurrentUrl(cfg, city) ==
    IF IncludesOpenWeatherMap(BASE_URL(cfg))
    THEN UrlAppend(BASE_URL(cfg), "/weather",
                   "?q=" \o encodeURIComponent(city) \o "&appid=" \o API_KEY \o "&units=metric")
    ELSE UrlAppend(BASE_URL(cfg), "/weather", "?city=" \o encodeURIComponent(city))

CurrentByCoordsUrl(cfg, lat, lon) ==
    IF IncludesOpenWeatherMap(BASE_URL(cfg))
    THEN UrlAppend(BASE_URL(cfg), "/weather",
                   "?lat=" \o ToString(lat) \o "&lon=" \o ToString(lon)
                           \o "&appid=" \o API_KEY \o "&units=metric")
    ELSE UrlAppend(BASE_URL(cfg), "/weather",
                   "?lat=" \o ToString(lat) \o "&lon=" \o ToString(lon))

ForecastByCoordsUrl(cfg, lat, lon) ==
    IF IncludesOpenWeatherMap(BASE_URL(cfg))
    THEN UrlAppend(BASE_URL(cfg), "/forecast",
                   "?lat=" \o ToString(lat) \o "&lon=" \o ToString(lon)
                           \o "&appid=" \o API_KEY \o "&units=metric")
    ELSE UrlAppend(BASE_URL(cfg), "/forecast",
                   "?lat=" \o ToString(lat) \o "&lon=" \o ToString(lon))

SearchUrl(cfg, cleanQuery, limit) ==
    IF IncludesOpenWeatherMap(GEOCODING_URL(cfg))
    THEN UrlAppend(GEOCODING_URL(cfg), "/direct",
                   "?q=" \o encodeURIComponent(cleanQuery) \o "&limit=" \o ToString(limit)
                         \o "&appid=" \o API_KEY)
    ELSE UrlAppend(GEOCODING_URL(cfg), "/geocoding",
                   "?q=" \o encodeURIComponent(cleanQuery) \o "&limit=" \o ToString(limit))

(* Errors: an Error object is its message, kept as the sequence of the
   parts it was built from; <<>> stands for no error. *)

NoError == <<>>
RateLimitMessage == "API rate limit reached. Please try again later."
InvalidUrlMessage == "Invalid URL format"
ApiKeyMessage == "API Key missing or invalid! Please update the API key in js/config.js"
TimedOutMessage == "Request timed out. Please check your connection and try again."
NotFoundMessage == "Location not found. Please check the city name and try again."
ServerErrorMessage == "HTTP error! status: 500"
NotJsonMessage == "Invalid response format. Expected JSON."
FailedToFetchMessage == "Failed to fetch"
InvalidLocationMessage == "Invalid location. Please provide city or coordinates."
InvalidCoordinatesMessage == "Invalid coordinates"
NoCoordMessage == "Cannot read properties of undefined (reading 'lat')"

\* the catch of makeRequest: new Error(`Weather data request failed: ${error.message}`)
RequestFailed(message) == <<"Weather data request failed: ", message>>

\* the kind of failure a message tells of, read off its last part
ErrorKind(error) ==
    IF error = NoError THEN "none"
    ELSE LET m == error[Len(error)] IN
         CASE m = RateLimitMessage -> "rate_limit"
           [] m \in {InvalidUrlMessage, InvalidLocationMessage, InvalidCoordinatesMessage} -> "validation"
           [] m \in {TimedOutMessage, FailedToFetchMessage} -> "network"
           [] m \in {NotFoundMessage, ServerErrorMessage, NotJsonMessage, ApiKeyMessage} -> "provider"
           [] OTHER -> "data_shape"

\* the part of makeRequest that runs before the fetch: checkRateLimit,
\* validateUrl, the API key check.  fetched says whether fetch is called;
\* rateOk / urlOk record what the two checks did (urlOk is FALSE when
\* validateUrl was not reached).
makeRequestBeginUnchecked(url, count, window, t) ==
    LET r == checkRateLimit(count, window, t) IN
    IF ~r.ok
    THEN [fetched |-> FALSE, rateOk |-> FALSE, urlOk |-> FALSE,
          error |-> RequestFailed(RateLimitMessage),
          requestCount |-> r.requestCount, requestWindow |-> r.requestWindow]
    ELSE [fetched |-> TRUE, rateOk |-> TRUE, urlOk |-> validateUrl(url), error |-> NoError,
          requestCount |-> r.requestCount, requestWindow |-> r.requestWindow]

makeRequestBegin(url, count, window, t) ==
    LET r == checkRateLimit(count, window, t) IN
    IF ~r.ok
    THEN [fetched |-> FALSE, rateOk |-> FALSE, urlOk |-> FALSE,
          error |-> RequestFailed(RateLimitMessage),
          requestCount |-> r.requestCount, requestWindow |-> r.requestWindow]
    ELSE IF ~validateUrl(url)
    THEN [fetched |-> FALSE, rateOk |-> TRUE, urlOk |-> FALSE,
          error |-> RequestFailed(InvalidUrlMessage),
          requestCount |-> r.requestCount, requestWindow |-> r.requestWindow]
    ELSE IF IncludesOpenWeatherMap(url) /\ (API_KEY = "" \/ API_KEY = "YOUR_API_KEY_HERE")
    THEN [fetched |-> FALSE, rateOk |-> TRUE, urlOk |-> TRUE,
          error |-> RequestFailed(ApiKeyMessage),
          requestCount |-> r.requestCount, requestWindow |-> r.requestWindow]
    ELSE [fetched |-> TRUE, rateOk |-> TRUE, urlOk |-> TRUE, error |-> NoError,
          requestCount |-> r.requestCount, requestWindow |-> r.requestWindow]

\* what the network does with a fetch
Outcomes == {"ok", "no_coord", "http404", "timeout"}

\* the part of makeRequest that runs once the fetch settles: the error it
\* throws, NoError when it returns the parsed body
makeRequestEnd(outcome) ==
    CASE outcome \in {"ok", "no_coord"} -> NoError
      [] outcome = "http404" -> RequestFailed(NotFoundMessage)
      [] outcome = "http500" -> RequestFailed(ServerErrorMessage)
      [] outcome = "not_json" -> RequestFailed(NotJsonMessage)
      [] outcome = "timeout" -> <<TimedOutMessage>>
      [] outcome = "network" -> RequestFailed(FailedToFetchMessage)

-----------------------------------------------------------------------------
(* UV estimate *)

Abs(x) == IF x < 0 THEN 0 - x ELSE x
Min(a, b) == IF a < b THEN a ELSE b
Max(a, b) == IF a > b THEN a ELSE b

\* estimateUVIndex(lat, lon) at local hour `hour` (0-23) and month `month`
\* (0-11, as Date.getMonth), for whole-degree latitudes.  The product
\*   (10 - |hour-12|*1.5) * max(0.3, 1 - (absLat/90)*0.5) * (0.5 + (m/6)*0.5)
\* is kept exact as num / 4320, with
\*   10 - |hour-12|*1.5 = (20 - 3|hour-12|) / 2,
\*   max(0.3, 1 - absLat/180) = max(54, 180 - absLat) / 180,
\*   0.5 + m/12 = (6 + m) / 12,
\* and Math.round(x) is floor(x + 0.5).
\* an estimate without the night test and without the final clamp
estimateUVIndexRaw(lat, hour, month) ==
    LET absLat == Abs(lat)
        winterPeak == IF lat >= 0 THEN 0 ELSE 6
        monthsFromWinter == Min(Abs(month - winterPeak), 12 - Abs(month - winterPeak))
        num == (20 - 3 * Abs(hour - 12)) * Max(54, 180 - absLat) * (6 + monthsFromWinter)
    IN  (2 * num + 4320) \div 8640

\* an estimate without the night test that works on the size of the base value
estimateUVIndexAllDay(lat, hour, month) ==
    LET absLat == Abs(lat)
        winterPeak == IF lat >= 0 THEN 0 ELSE 6
        monthsFromWinter == Min(Abs(month - winterPeak), 12 - Abs(month - winterPeak))
        num == Abs(20 - 3 * Abs(hour - 12)) * Max(54, 180 - absLat) * (6 + monthsFromWinter)
    IN  Max(0, Min(11, (2 * num + 4320) \div 8640))

estimateUVIndex(lat, hour, month) ==
    IF hour < 6 \/ hour > 18 THEN 0
    ELSE LET absLat == Abs(lat)
             isNorthernHemi == lat >= 0
             winterPeak == IF isNorthernHemi THEN 0 ELSE 6
             monthsFromWinter == Min(Abs(month - winterPeak), 12 - Abs(month - winterPeak))
             num == (20 - 3 * Abs(hour - 12)) * Max(54, 180 - absLat) * (6 + monthsFromWinter)
         IN  Max(0, Min(11, (2 * num + 4320) \div 8640))

-----------------------------------------------------------------------------
(* getCompleteWeatherData and searchCities *)

\* a number a location object does not carry (undefined)
NoNumber == 999

\* !x for a coordinate field: undefined and 0 are falsy
FalsyNumber(x) == x = NoNumber \/ x = 0

\* isNaN(x): undefined converts to NaN
IsNaN(x) == x = NoNumber

Location(city, lat, lon) == [city |-> city, lat |-> lat, lon |-> lon]

NoData == [kind |-> "none"]
NoUrl == UrlText("", FALSE, <<>>, <<>>)

\* the coordinates the provider reports for a city
CityCoord(city) ==
    CASE city = "London" -> [lat |-> 51, lon |-> 0]
      [] OTHER -> [lat |-> 10, lon |-> 20]

\* the bodies the provider answers with
CurrentData(name, lat, lon, outcome) ==
    [kind |-> "current", name |-> name, hasCoord |-> outcome # "no_coord",
     lat |-> IF outcome # "no_coord" THEN lat ELSE NoNumber,
     lon |-> IF outcome # "no_coord" THEN lon ELSE NoNumber]

ForecastData(lat, lon) == [kind |-> "forecast", lat |-> lat, lon |-> lon]

GeocodingData(cleanQuery) ==
    [kind |-> "geocoding",
     list |-> << [name |-> "London", country |-> "GB", state |-> "England", lat |-> 51, lon |-> 0] >>]

\* data.map(city => ({..., display})) of searchCities
FormatCities(data) ==
    [kind |-> "cities",
     list |-> [i \in 1..Len(data.list) |->
                [name |-> data.list[i].name, country |-> data.list[i].country,
                 state |-> data.list[i].state, lat |-> data.list[i].lat, lon |-> data.list[i].lon,
                 display |-> data.list[i].name
                             \o (IF data.list[i].state # "" THEN ", " \o data.list[i].state ELSE "")
                             \o ", " \o data.list[i].country]]]

EmptyList == [kind |-> "cities", list |-> <<>>]

UVData(uvi) == [kind |-> "uv", uvi |-> uvi, simulated |-> TRUE]

\* one sub-request of a call
IdleLeg ==
    [state |-> "idle", fetched |-> FALSE, rateOk |-> FALSE, urlOk |-> FALSE,
     url |-> NoUrl, key |-> "", data |-> NoData, error |-> NoError]

IdleCall ==
    [op |-> "none", pc |-> "idle", location |-> Location("", NoNumber, NoNumber),
     query |-> "", limit |-> 0, startedAt |-> 0,
     current |-> IdleLeg, forecast |-> IdleLeg, uv |-> IdleLeg, search |-> IdleLeg,
     outcome |-> "none", error |-> NoError, result |-> NoData]

\* a leg that does not look in the cache
LegBeginUncached(c, key, url, count, window, t) ==
    LET b == makeRequestBegin(url, count, window, t)
    IN  [cache |-> c, requestCount |-> b.requestCount,
         requestWindow |-> b.requestWindow, permitted |-> b.rateOk,
         leg |-> [state |-> IF b.fetched THEN "pending" ELSE "failed",
                  fetched |-> b.fetched, rateOk |-> b.rateOk, urlOk |-> b.urlOk,
                  url |-> url, key |-> key, data |-> NoData, error |-> b.error]]

\* getCurrentWeather / getCurrentWeatherByCoords / getForecastByCoords up to
\* their await: the cache lookup and, on a miss, makeRequest up to the fetch
LegBegin(c, key, url, count, window, t) ==
    LET g == getCachedData(c, key, t)
        b == makeRequestBegin(url, count, window, t)
    IN  IF g.hit
        THEN [cache |-> g.cache, requestCount |-> count, requestWindow |-> window,
              permitted |-> FALSE,
              leg |-> [IdleLeg EXCEPT !.state = "done", !.key = key, !.data = g.result]]
        ELSE [cache |-> g.cache, requestCount |-> b.requestCount,
              requestWindow |-> b.requestWindow, permitted |-> b.rateOk,
              leg |-> [state |-> IF b.fetched THEN "pending" ELSE "failed",
                       fetched |-> b.fetched, rateOk |-> b.rateOk, urlOk |-> b.urlOk,
                       url |-> url, key |-> key, data |-> NoData, error |-> b.error]]

\* the same functions from the moment the fetch settles: makeRequest's
\* result, and setCachedData when it returned a body
LegEnd(c, leg, outcome, body, t) ==
    IF makeRequestEnd(outcome) = NoError
    THEN [cache |-> setCachedData(c, leg.key, body, t),
          leg |-> [leg EXCEPT !.state = "done", !.data = body]]
    ELSE [cache |-> c,
          leg |-> [leg EXCEPT !.state = "failed", !.error = makeRequestEnd(outcome)]]

\* getUVIndex: no request is made; the estimate is computed and cached
UVLeg(c, lat, lon, hour, month, t) ==
    LET key == getCacheKey("uv", CoordText(lat, lon))
        g == getCachedData(c, key, t)
        simulatedData == UVData(estimateUVIndex(lat, hour, month))
    IN  IF g.hit
        THEN [cache |-> g.cache,
              leg |-> [IdleLeg EXCEPT !.state = "done", !.key = key, !.data = g.result]]
        ELSE [cache |-> setCachedData(g.cache, key, simulatedData, t),
              leg |-> [IdleLeg EXCEPT !.state = "done", !.key = key, !.data = simulatedData]]

\* a call that has ended by throwing / by returning
Threw(call, error) == [call EXCEPT !.pc = "done", !.outcome = "threw", !.error = error]
Returned(call, result) == [call EXCEPT !.pc = "done", !.outcome = "returned", !.result = result]

InvalidCoords(lat, lon) == IsNaN(lat) \/ IsNaN(lon) \/ Abs(lat) > 90 \/ Abs(lon) > 180

-----------------------------------------------------------------------------
(* The clock *)

InstantsOf(d) ==
    {t \in {k * d + j : k \in 0..MaxPeriods, j \in (-1)..MaxSkew} : t >= 0}

NoCall == [op |-> "none"]

\* the objects of js/app.js and api/weather.js have not been constructed
NoApp == [op |-> "none"]
NoEntry == [key |-> NULL, data |-> NULL, timestamp |-> 0 - 1]

\* the invocations the model follows, numbered in the order they are made
MaxCalls == 2
Calls == 1..MaxCalls

\* invocation c is the next one to be made
NextToStart(c) ==
    /\ calls[c].pc = "idle"
    /\ \A d \in 1..(c - 1) : calls[d].op # "none"

NoSearch == [query |-> "", time |-> 0, results |-> EmptyList]

InitClientIdle ==
    /\ config = "direct"
    /\ app = NoApp
    /\ lastSearch = NoSearch
    /\ calls = [c \in Calls |-> IdleCall]

-----------------------------------------------------------------------------
(* The cache on its own: any sequence of set / get / clean calls *)

CacheTypes == {"current", "forecast"}
CacheIdentifiers == {"London", "10,20"}
CacheKeys == {getCacheKey(ty, id) : ty \in CacheTypes, id \in CacheIdentifiers}
CacheValues == {"v1", "v2"}

CacheInstants == InstantsOf(CACHE_DURATION)

InitCache ==
    /\ now \in CacheInstants
    /\ cache = cleanCache(<<>>, now)      \* the constructor runs cleanCache
    /\ requestCount = 0
    /\ requestWindow = now
    /\ ret = NoCall
    /\ permits = <<>>
    /\ InitClientIdle

CacheTick ==
    /\ \E t \in CacheInstants : t > now /\ now' = t
    /\ UNCHANGED <<cache, requestCount, requestWindow, ret, permits, clientVars>>

SetCachedData(key, data) ==
    /\ cache' = setCachedData(cache, key, data, now)
    /\ ret' = [op |-> "set", key |-> key, data |-> data, at |-> now,
               before |-> cache]
    /\ UNCHANGED <<now, requestCount, requestWindow, permits, clientVars>>

GetCachedData(key) ==
    /\ cache' = getCachedData(cache, key, now).cache
    /\ ret' = [op |-> "get", key |-> key, at |-> now,
               found |-> IndexOf(cache, key) # 0,
               entry |-> IF IndexOf(cache, key) # 0
                         THEN cache[IndexOf(cache, key)] ELSE NoEntry,
               hit |-> getCachedData(cache, key, now).hit,
               result |-> getCachedData(cache, key, now).result]
    /\ UNCHANGED <<now, requestCount, requestWindow, permits, clientVars>>

CleanCache ==
    /\ cache' = cleanCache(cache, now)
    /\ ret' = [op |-> "clean", at |-> now]
    /\ UNCHANGED <<now, requestCount, requestWindow, permits, clientVars>>

NextCache ==
    \/ CacheTick
    \/ \E key \in CacheKeys, data \in CacheValues : SetCachedData(key, data)
    \/ \E key \in CacheKeys : GetCachedData(key)
    \/ CleanCache

SpecCache == InitCache /\ [][NextCache]_vars

-----------------------------------------------------------------------------
(* The rate limiter on its own: any sequence of checkRateLimit calls *)

RateInstants ==
    {t \in {k * oneMinute + j : k \in 0..(MaxPeriods + 1), j \in (-1)..MaxSkew} : t >= 0}

InitRate ==
    /\ now \in {t \in RateInstants : t <= MaxSkew}
    /\ cache = <<>>
    /\ requestCount = 0
    /\ requestWindow = now
    /\ ret = NoCall
    /\ permits = <<>>
    /\ InitClientIdle

RateTick ==
    /\ \E t \in RateInstants : t > now /\ now' = t
    /\ UNCHANGED <<cache, requestCount, requestWindow, ret, permits, clientVars>>

CheckRateLimit ==
    LET r == checkRateLimit(requestCount, requestWindow, now) IN
    /\ requestCount' = r.requestCount
    /\ requestWindow' = r.requestWindow
    /\ permits' = IF r.ok THEN Append(permits, now) ELSE permits
    /\ ret' = [op |-> "checkRateLimit", at |-> now, ok |-> r.ok,
               afterThrow |-> (ret.op = "checkRateLimit" /\ ~ret.ok),
               countBefore |-> requestCount, windowBefore |-> requestWindow]
    /\ UNCHANGED <<now, cache, clientVars>>

NextRate ==
    \/ RateTick
    \/ CheckRateLimit

SpecRate == InitRate /\ [][NextRate]_vars

-----------------------------------------------------------------------------
(* The URL validator on its own: validateUrl applied to URL texts *)

UrlSchemes == {"https:", "http:", "file:", "data:", ""}
UrlHosts ==
    { <<"localhost">>, <<"api", "openweathermap", "org">>, <<"openweathermap", "org">>,
      <<"tile", "openweathermap", "org">>, <<"evil", "example">>,
      <<"evilopenweathermap", "org">>, <<"openweathermap", "org", "evil", "example">> }
UrlPaths ==
    { <<>>, <<"/data/2.5/weather">>, <<"/api/weather">>, <<"weather">>,
      <<"/api", "/../", "/secret">>, <<"/api", "/..%2F">>, <<"/geo", "?src=data:">> }

UrlTexts ==
    {UrlText(sc, TRUE, h, pa) : sc \in UrlSchemes \ {"file:", "data:"}, h \in UrlHosts,
                                pa \in UrlPaths \ {<<"weather">>}}
    \cup {UrlText(sc, FALSE, <<>>, pa) : sc \in {"file:", "data:", ""}, pa \in UrlPaths \ {<<>>}}

InitUrl ==
    /\ now = 0
    /\ cache = <<>>
    /\ requestCount = 0
    /\ requestWindow = now
    /\ ret = NoCall
    /\ permits = <<>>
    /\ InitClientIdle

ValidateUrl(url) ==
    /\ ret' = [op |-> "validateUrl", url |-> url, ok |-> validateUrl(url)]
    /\ UNCHANGED <<now, cache, requestCount, requestWindow, permits, clientVars>>

NextUrl == \E url \in UrlTexts : ValidateUrl(url)

SpecUrl == InitUrl /\ [][NextUrl]_vars

-----------------------------------------------------------------------------
(* The client: getCompleteWeatherData and searchCities calls in flight
   together.  One action runs a call from one await to the next; the code of
   different calls interleaves only there. *)

Cities == {"London"}
Locations ==
    {Location(city, NoNumber, NoNumber) : city \in Cities}
    \cup {Location("", 10, 20), Location("", 51, 0), Location("", NoNumber, NoNumber)}

\* String.prototype.trim on the queries the model uses
Trim(s) ==
    CASE s = " lo " -> "lo"
      [] s = " l " -> "l"
      [] s = "  " -> ""
      [] OTHER -> s

\* the window of the debounce check of searchCities, in milliseconds
DebounceWindow == 2000

\* the parameter default `limit = 5`: it replaces an argument left undefined
\* and nothing else
DefaultLimit(limit) == IF limit = NoNumber THEN 5 ELSE limit

Queries == {" lo ", " l "}
Limits == {5}

\* the local hour and month `new Date()` reports when the UV estimate is made
LocalHours == {12}
LocalMonths == {6}

\* the clock readings of the client: the construction time and a reading
\* more than a minute later
ClientInstants == {1, oneMinute + 2}

InitClient ==
    /\ now \in {t \in ClientInstants : t < oneMinute}
    /\ cache = cleanCache(<<>>, now)
    /\ requestCount = 0
    /\ requestWindow = now
    /\ ret = NoCall
    /\ permits = <<>>
    /\ config \in Configs
    /\ app = NoApp
    /\ lastSearch = NoSearch
    /\ calls = [c \in Calls |-> IdleCall]

ClientTick ==
    /\ \E t \in ClientInstants : t > now /\ now' = t
    /\ UNCHANGED <<cache, requestCount, requestWindow, ret, permits, clientVars>>

\* the effect of one leg's start on the shared state
ApplyBegin(b) ==
    /\ cache' = b.cache
    /\ requestCount' = b.requestCount
    /\ requestWindow' = b.requestWindow
    /\ permits' = IF b.permitted THEN Append(permits, now) ELSE permits

\* getCompleteWeatherData that does not wait for the current weather before
\* it asks for the forecast
StartCompleteEager(c, location) ==
    LET call == [calls[c] EXCEPT !.op = "complete", !.location = location]
        byCity == location.city # ""
        key == IF byCity THEN getCacheKey("current", location.city)
               ELSE getCacheKey("current", CoordText(location.lat, location.lon))
        url == IF byCity THEN CurrentUrl(config, location.city)
               ELSE CurrentByCoordsUrl(config, location.lat, location.lon)
        b == LegBegin(cache, key, url, requestCount, requestWindow, now)
    IN
    /\ NextToStart(c)
    /\ IF location.city = "" /\ (FalsyNumber(location.lat) \/ FalsyNumber(location.lon))
       THEN /\ calls' = [calls EXCEPT ![c] = Threw(call, <<InvalidLocationMessage>>)]
            /\ UNCHANGED <<cache, requestCount, requestWindow, permits>>
       ELSE IF ~byCity /\ InvalidCoords(location.lat, location.lon)
       THEN /\ calls' = [calls EXCEPT ![c] =
                    [call EXCEPT !.pc = "current_ready",
                                 !.current = [IdleLeg EXCEPT !.state = "failed",
                                                 !.error = <<InvalidCoordinatesMessage>>]]]
            /\ UNCHANGED <<cache, requestCount, requestWindow, permits>>
       ELSE /\ calls' = [calls EXCEPT ![c] =
                    [call EXCEPT !.pc = IF b.leg.state = "pending" THEN "current_wait"
                                        ELSE "current_ready",
                                 !.current = b.leg,
                                 !.forecast = [b.leg EXCEPT !.state = "pending"]]]
            /\ ApplyBegin(b)
    /\ UNCHANGED <<now, ret, config, lastSearch>>

\* getCompleteWeatherData(location), up to its first await
StartComplete(c, location) ==
    LET call == [calls[c] EXCEPT !.op = "complete", !.location = location]
        byCity == location.city # ""
        key == IF byCity THEN getCacheKey("current", location.city)
               ELSE getCacheKey("current", CoordText(location.lat, location.lon))
        url == IF byCity THEN CurrentUrl(config, location.city)
               ELSE CurrentByCoordsUrl(config, location.lat, location.lon)
        b == LegBegin(cache, key, url, requestCount, requestWindow, now)
    IN
    /\ NextToStart(c)
    /\ IF location.city = "" /\ (FalsyNumber(location.lat) \/ FalsyNumber(location.lon))
       THEN /\ calls' = [calls EXCEPT ![c] = Threw(call, <<InvalidLocationMessage>>)]
            /\ UNCHANGED <<cache, requestCount, requestWindow, permits>>
       ELSE IF ~byCity /\ InvalidCoords(location.lat, location.lon)
       THEN /\ calls' = [calls EXCEPT ![c] =
                    [call EXCEPT !.pc = "current_ready",
                                 !.current = [IdleLeg EXCEPT !.state = "failed",
                                                 !.error = <<InvalidCoordinatesMessage>>]]]
            /\ UNCHANGED <<cache, requestCount, requestWindow, permits>>
       ELSE /\ calls' = [calls EXCEPT ![c] =
                    [call EXCEPT !.pc = IF b.leg.state = "pending" THEN "current_wait"
                                        ELSE "current_ready",
                                 !.current = b.leg]]
            /\ ApplyBegin(b)
    /\ UNCHANGED <<now, ret, config, lastSearch>>

\* the current-weather fetch settles: makeRequest ends, the body is cached
CurrentSettles(c, outcome) ==
    LET call == calls[c]
        coord == IF call.location.city # "" THEN CityCoord(call.location.city)
                 ELSE [lat |-> call.location.lat, lon |-> call.location.lon]
        name == IF call.location.city # "" THEN call.location.city ELSE "Somewhere"
        e == LegEnd(cache, call.current, outcome,
                    CurrentData(name, coord.lat, coord.lon, outcome), now)
    IN
    /\ call.pc = "current_wait"
    /\ cache' = e.cache
    /\ calls' = [calls EXCEPT ![c] = [call EXCEPT !.pc = "current_ready", !.current = e.leg]]
    /\ UNCHANGED <<now, requestCount, requestWindow, ret, permits, config, app, lastSearch>>

\* getCompleteWeatherData that goes on to the forecast and the UV lookup of a
\* city whose current weather could not be fetched
AfterCurrentDespiteFailure(c, hour, month) ==
    LET call == calls[c]
        failed == call.current.state = "failed"
        lat == IF failed THEN CityCoord(call.location.city).lat ELSE call.current.data.lat
        lon == IF failed THEN CityCoord(call.location.city).lon ELSE call.current.data.lon
        b == LegBegin(cache, getCacheKey("forecast", CoordText(lat, lon)),
                      ForecastByCoordsUrl(config, lat, lon), requestCount, requestWindow, now)
        u == UVLeg(b.cache, lat, lon, hour, month, now)
    IN
    /\ call.pc = "current_ready"
    /\ IF ~failed /\ ~call.current.data.hasCoord
       THEN /\ calls' = [calls EXCEPT ![c] = Threw(call, <<NoCoordMessage>>)]
            /\ UNCHANGED <<cache, requestCount, requestWindow, permits>>
       ELSE IF InvalidCoords(lat, lon)
       THEN /\ calls' = [calls EXCEPT ![c] =
                    [call EXCEPT !.pc = "legs_ready",
                                 !.forecast = [IdleLeg EXCEPT !.state = "failed",
                                                  !.error = <<InvalidCoordinatesMessage>>],
                                 !.uv = UVLeg(cache, lat, lon, hour, month, now).leg]]
            /\ cache' = UVLeg(cache, lat, lon, hour, month, now).cache
            /\ UNCHANGED <<requestCount, requestWindow, permits>>
       ELSE /\ calls' = [calls EXCEPT ![c] =
                    [call EXCEPT !.pc = IF b.leg.state = "pending" THEN "forecast_wait"
                                        ELSE "legs_ready",
                                 !.forecast = IF failed
                                              THEN [b.leg EXCEPT !.state = "failed",
                                                                 !.error = call.current.error]
                                              ELSE b.leg,
                                 !.uv = u.leg]]
            /\ ApplyBegin([b EXCEPT !.cache = u.cache])
    /\ UNCHANGED <<now, ret, config, lastSearch>>

\* getCompleteWeatherData after `await getCurrentWeather...`: the coordinates
\* are read off the result, then getForecastByCoords and getUVIndex are
\* called, in this order, before Promise.all is awaited
AfterCurrent(c, hour, month) ==
    LET call == calls[c]
        lat == call.current.data.lat
        lon == call.current.data.lon
        b == LegBegin(cache, getCacheKey("forecast", CoordText(lat, lon)),
                      ForecastByCoordsUrl(config, lat, lon), requestCount, requestWindow, now)
        u == UVLeg(b.cache, lat, lon, hour, month, now)
    IN
    /\ call.pc = "current_ready"
    /\ IF call.current.state = "failed"
       THEN /\ calls' = [calls EXCEPT ![c] = Threw(call, call.current.error)]
            /\ UNCHANGED <<cache, requestCount, requestWindow, permits>>
       ELSE IF ~call.current.data.hasCoord
       THEN /\ calls' = [calls EXCEPT ![c] = Threw(call, <<NoCoordMessage>>)]
            /\ UNCHANGED <<cache, requestCount, requestWindow, permits>>
       ELSE IF InvalidCoords(lat, lon)
       THEN /\ calls' = [calls EXCEPT ![c] =
                    [call EXCEPT !.pc = "legs_ready",
                                 !.forecast = [IdleLeg EXCEPT !.state = "failed",
                                                  !.error = <<InvalidCoordinatesMessage>>],
                                 !.uv = UVLeg(cache, lat, lon, hour, month, now).leg]]
            /\ cache' = UVLeg(cache, lat, lon, hour, month, now).cache
            /\ UNCHANGED <<requestCount, requestWindow, permits>>
       ELSE /\ calls' = [calls EXCEPT ![c] =
                    [call EXCEPT !.pc = IF b.leg.state = "pending" THEN "forecast_wait"
                                        ELSE "legs_ready",
                                 !.forecast = b.leg,
                                 !.uv = u.leg]]
            /\ ApplyBegin([b EXCEPT !.cache = u.cache])
    /\ UNCHANGED <<now, ret, config, lastSearch>>

\* the forecast fetch settles
ForecastSettles(c, outcome) ==
    LET call == calls[c]
        e == LegEnd(cache, call.forecast, outcome,
                    ForecastData(call.current.data.lat, call.current.data.lon), now)
    IN
    /\ call.pc = "forecast_wait"
    /\ cache' = e.cache
    /\ calls' = [calls EXCEPT ![c] = [call EXCEPT !.pc = "legs_ready", !.forecast = e.leg]]
    /\ UNCHANGED <<now, requestCount, requestWindow, ret, permits, config, app, lastSearch>>

\* getCompleteWeatherData that hands back what it has when the forecast failed
FinishPartial(c) ==
    LET call == calls[c] IN
    /\ call.pc = "legs_ready"
    /\ calls' = [calls EXCEPT ![c] =
            Returned(call, [kind |-> "complete",
                            current |-> call.current.data,
                            forecast |-> call.forecast.data,
                            uvi |-> call.uv.data.uvi,
                            location |-> [name |-> call.current.data.name,
                                          lat |-> call.current.data.lat,
                                          lon |-> call.current.data.lon]])]
    /\ UNCHANGED <<now, cache, requestCount, requestWindow, ret, permits, config, lastSearch>>

\* getCompleteWeatherData after `await Promise.all(...)`: the combined result,
\* or the forecast's error
Finish(c) ==
    LET call == calls[c] IN
    /\ call.pc = "legs_ready"
    /\ calls' = [calls EXCEPT ![c] =
            IF call.forecast.state = "failed"
            THEN Threw(call, call.forecast.error)
            ELSE Returned(call, [kind |-> "complete",
                                 current |-> call.current.data,
                                 forecast |-> call.forecast.data,
                                 uvi |-> call.uv.data.uvi,
                                 location |-> [name |-> call.current.data.name,
                                               lat |-> call.current.data.lat,
                                               lon |-> call.current.data.lon]])]
    /\ UNCHANGED <<now, cache, requestCount, requestWindow, ret, permits, config, lastSearch>>

\* searchCities that sends queries of any length on
StartSearchAnyLength(c, query, limit) ==
    LET cleanQuery == Trim(query)
        call == [calls[c] EXCEPT !.op = "search", !.query = cleanQuery,
                                !.limit = DefaultLimit(limit), !.startedAt = now]
        key == getCacheKey("cities", cleanQuery)
        url == SearchUrl(config, cleanQuery, DefaultLimit(limit))
        g == getCachedData(cache, key, now)
        b == makeRequestBegin(url, requestCount, requestWindow, now)
        leg == [state |-> IF b.fetched THEN "pending" ELSE "failed",
                fetched |-> b.fetched, rateOk |-> b.rateOk, urlOk |-> b.urlOk,
                url |-> url, key |-> key, data |-> NoData, error |-> b.error]
    IN
    /\ NextToStart(c)
    /\ IF cleanQuery = lastSearch.query /\ now - lastSearch.time < DebounceWindow
       THEN /\ calls' = [calls EXCEPT ![c] = Returned(call, lastSearch.results)]
            /\ UNCHANGED <<cache, requestCount, requestWindow, permits, lastSearch>>
       ELSE IF g.hit
       THEN /\ calls' = [calls EXCEPT ![c] = Returned(call, g.result)]
            /\ lastSearch' = [query |-> cleanQuery, time |-> now, results |-> g.result]
            /\ cache' = g.cache
            /\ UNCHANGED <<requestCount, requestWindow, permits>>
       ELSE /\ calls' = [calls EXCEPT ![c] =
                    IF b.fetched
                    THEN [call EXCEPT !.pc = "search_wait", !.search = leg]
                    ELSE Returned([call EXCEPT !.search = leg], EmptyList)]
            /\ cache' = g.cache
            /\ requestCount' = b.requestCount
            /\ requestWindow' = b.requestWindow
            /\ permits' = IF b.rateOk THEN Append(permits, now) ELSE permits
            /\ UNCHANGED lastSearch
    /\ UNCHANGED <<now, ret, config, app>>

\* searchCities(query, limit), up to its await; a makeRequest that throws
\* before the fetch is caught and becomes an empty list
StartSearch(c, query, limit) ==
    LET cleanQuery == Trim(query)
        call == [calls[c] EXCEPT !.op = "search", !.query = cleanQuery,
                                !.limit = DefaultLimit(limit), !.startedAt = now]
        key == getCacheKey("cities", cleanQuery)
        url == SearchUrl(config, cleanQuery, DefaultLimit(limit))
        g == getCachedData(cache, key, now)
        b == makeRequestBegin(url, requestCount, requestWindow, now)
        leg == [state |-> IF b.fetched THEN "pending" ELSE "failed",
                fetched |-> b.fetched, rateOk |-> b.rateOk, urlOk |-> b.urlOk,
                url |-> url, key |-> key, data |-> NoData, error |-> b.error]
    IN
    /\ NextToStart(c)
    /\ IF cleanQuery = "" \/ Len(cleanQuery) < 2
       THEN /\ calls' = [calls EXCEPT ![c] = Returned(call, EmptyList)]
            /\ UNCHANGED <<cache, requestCount, requestWindow, permits, lastSearch>>
       ELSE IF cleanQuery = lastSearch.query /\ now - lastSearch.time < DebounceWindow
       THEN /\ calls' = [calls EXCEPT ![c] = Returned(call, lastSearch.results)]
            /\ UNCHANGED <<cache, requestCount, requestWindow, permits, lastSearch>>
       ELSE IF g.hit
       THEN /\ calls' = [calls EXCEPT ![c] = Returned(call, g.result)]
            /\ lastSearch' = [query |-> cleanQuery, time |-> now, results |-> g.result]
            /\ cache' = g.cache
            /\ UNCHANGED <<requestCount, requestWindow, permits>>
       ELSE /\ calls' = [calls EXCEPT ![c] =
                    IF b.fetched
                    THEN [call EXCEPT !.pc = "search_wait", !.search = leg]
                    ELSE Returned([call EXCEPT !.search = leg], EmptyList)]
            /\ cache' = g.cache
            /\ requestCount' = b.requestCount
            /\ requestWindow' = b.requestWindow
            /\ permits' = IF b.rateOk THEN Append(permits, now) ELSE permits
            /\ UNCHANGED lastSearch
    /\ UNCHANGED <<now, ret, config, app>>

\* the geocoding fetch settles: the list is formatted, cached and remembered
\* (with the clock reading taken when the call started); a failure is caught
\* and becomes an empty list
SearchSettles(c, outcome) ==
    LET call == calls[c]
        cities == FormatCities(GeocodingData(call.query))
        e == LegEnd(cache, call.search, outcome, cities, now)
    IN
    /\ call.pc = "search_wait"
    /\ cache' = e.cache
    /\ IF e.leg.state = "done"
       THEN /\ calls' = [calls EXCEPT ![c] = Returned([call EXCEPT !.search = e.leg], cities)]
            /\ lastSearch' = [query |-> call.query, time |-> call.startedAt, results |-> cities]
       ELSE /\ calls' = [calls EXCEPT ![c] = Returned([call EXCEPT !.search = e.leg], EmptyList)]
            /\ UNCHANGED lastSearch
    /\ UNCHANGED <<now, requestCount, requestWindow, ret, permits, config, app>>

NextClient ==
    \/ ClientTick
    \/ \E c \in Calls, location \in Locations : StartComplete(c, location) /\ UNCHANGED app
    \/ \E c \in Calls, outcome \in Outcomes : CurrentSettles(c, outcome)
    \/ \E c \in Calls, hour \in LocalHours, month \in LocalMonths : AfterCurrent(c, hour, month) /\ UNCHANGED app
    \/ \E c \in Calls, outcome \in Outcomes \ {"no_coord"} : ForecastSettles(c, outcome)
    \/ \E c \in Calls : Finish(c) /\ UNCHANGED app
    \/ \E c \in Calls, query \in Queries, limit \in Limits : StartSearch(c, query, limit)
    \/ \E c \in Calls, outcome \in Outcomes \ {"no_coord"} : SearchSettles(c, outcome)

SpecClient == InitClient /\ [][NextClient]_vars

-----------------------------------------------------------------------------
(* Retries: getCompleteWeatherData calls made one after the other, enough of
   them for a call to be made between a failed call and its retry, over clock
   readings inside and beyond the lifetime of a cache entry *)

MaxAttempts == 3
Attempts == 1..MaxAttempts

RetryLocations == {Location("London", NoNumber, NoNumber), Location("", 10, 20)}

RetryInstants == {1, oneMinute + 2, CACHE_DURATION + 1}

InitRetry ==
    /\ now = 1
    /\ cache = cleanCache(<<>>, now)
    /\ requestCount = 0
    /\ requestWindow = now
    /\ ret = NoCall
    /\ permits = <<>>
    /\ config = "direct"
    /\ app = NoApp
    /\ lastSearch = NoSearch
    /\ calls = [c \in Attempts |-> IdleCall]

RetryTick ==
    /\ \E t \in RetryInstants : t > now /\ now' = t
    /\ UNCHANGED <<cache, requestCount, requestWindow, ret, permits, clientVars>>

\* the caller makes its next call once the previous one has ended
StartAttempt(c, location) ==
    /\ \A d \in 1..(c - 1) : calls[d].pc = "done"
    /\ StartComplete(c, location)
    /\ UNCHANGED app

NextRetry ==
    \/ RetryTick
    \/ \E c \in Attempts, location \in RetryLocations : StartAttempt(c, location)
    \/ \E c \in Attempts, outcome \in Outcomes : CurrentSettles(c, outcome)
    \/ \E c \in Attempts, hour \in LocalHours, month \in LocalMonths : AfterCurrent(c, hour, month) /\ UNCHANGED app
    \/ \E c \in Attempts, outcome \in Outcomes \ {"no_coord"} : ForecastSettles(c, outcome)
    \/ \E c \in Attempts : Finish(c) /\ UNCHANGED app

SpecRetry == InitRetry /\ [][NextRetry]_vars

-----------------------------------------------------------------------------
(* City search: searchCities calls in flight together, with the arguments a
   caller can pass, over clock readings inside the debounce window, past it,
   and past the lifetime of a cache entry *)

SearchQueries == {" lo ", " l ", "  "}

\* limits as callers pass them: left out, 5 (the suggestion list of
\* part_000), 8 (showCitySuggestions of app.js), 0, a negative number
SearchLimits == {NoNumber, 5, 8, 0, 0 - 1}

SearchInstants == {1, 300, DebounceWindow + 2, CACHE_DURATION + 1}

InitSearch ==
    /\ now = 1
    /\ cache = cleanCache(<<>>, now)
    /\ requestCount = 0
    /\ requestWindow = now
    /\ ret = NoCall
    /\ permits = <<>>
    /\ config \in Configs
    /\ app = NoApp
    /\ lastSearch = NoSearch
    /\ calls = [c \in Calls |-> IdleCall]

SearchTick ==
    /\ \E t \in SearchInstants : t > now /\ now' = t
    /\ UNCHANGED <<cache, requestCount, requestWindow, ret, permits, clientVars>>

NextSearch ==
    \/ SearchTick
    \/ \E c \in Calls, query \in SearchQueries, limit \in SearchLimits : StartSearch(c, query, limit)
    \/ \E c \in Calls, outcome \in Outcomes \ {"no_coord"} : SearchSettles(c, outcome)

SpecSearch == InitSearch /\ [][NextSearch]_vars

-----------------------------------------------------------------------------
(* The UV estimate on its own: estimateUVIndex applied to whole-degree
   latitudes at every local hour and month *)

Latitudes == (0 - 90)..90
HoursOfDay == 0..23          \* Date.getHours
MonthsOfYear == 0..11        \* Date.getMonth

\* the arguments and the local time of one call
InitUV ==
    /\ now = 1
    /\ cache = <<>>
    /\ requestCount = 0
    /\ requestWindow = now
    /\ ret \in {[op |-> "arguments", lat |-> lat, hour |-> hour, month |-> month] :
                    lat \in Latitudes, hour \in HoursOfDay, month \in MonthsOfYear}
    /\ permits = <<>>
    /\ InitClientIdle

EstimateUVIndex ==
    /\ ret.op = "arguments"
    /\ ret' = [op |-> "estimateUVIndex", lat |-> ret.lat, hour |-> ret.hour,
               month |-> ret.month,
               uvi |-> estimateUVIndex(ret.lat, ret.hour, ret.month)]
    /\ UNCHANGED <<now, cache, requestCount, requestWindow, permits, clientVars>>

NextUV == EstimateUVIndex

SpecUV == InitUV /\ [][NextUV]_vars

-----------------------------------------------------------------------------
(* One makeRequest at a time, followed through its awaits: the fetch (up to
   the response headers), then the read of the body.  The server and the
   network answer when they please or not at all; the clock moves on and a
   timer that is armed and due fires. *)

API_TIMEOUT == 10000

\* what the response headers say
ResponseKinds == {"ok", "http404", "not_json"}

RequestUrls(cfg) == {CurrentUrl(cfg, "London"), SearchUrl(cfg, "lo", 5)}

RequestInstants == {1, API_TIMEOUT, API_TIMEOUT + 1, oneMinute + 2}

InitRequest ==
    /\ now = 1
    /\ cache = <<>>
    /\ requestCount = 0
    /\ requestWindow = now
    /\ ret = NoCall
    /\ permits = <<>>
    /\ config \in Configs
    /\ app = NoApp
    /\ lastSearch = NoSearch
    /\ calls = [c \in Calls |-> IdleCall]

\* a makeRequest that has ended with this error (NoError: it returned the body)
RequestDone(request, error) ==
    [request EXCEPT !.pc = "done", !.error = error]

RequestTick ==
    /\ \E t \in RequestInstants : t > now /\ now' = t
    /\ UNCHANGED <<cache, requestCount, requestWindow, ret, permits, clientVars>>

\* makeRequest(url) up to `await fetch`: the checks, then setTimeout and fetch
MakeRequest(url) ==
    LET b == makeRequestBegin(url, requestCount, requestWindow, now) IN
    /\ IF ret = NoCall THEN TRUE ELSE ret.pc = "done"
    /\ requestCount' = b.requestCount
    /\ requestWindow' = b.requestWindow
    /\ permits' = IF b.rateOk THEN Append(permits, now) ELSE permits
    /\ ret' = [op |-> "makeRequest", url |-> url, startedAt |-> now,
               pc |-> IF b.fetched THEN "fetch_wait" ELSE "done",
               timer |-> IF b.fetched THEN "armed" ELSE "none",
               kind |-> "none", error |-> b.error]
    /\ UNCHANGED <<now, cache, clientVars>>

\* the response headers arrive: fetch resolves, clearTimeout runs, and the
\* code goes on to the content-type check or to an await of response.json()
ResponseArrives(kind) ==
    /\ ret.op = "makeRequest" /\ ret.pc = "fetch_wait"
    /\ ret' = IF kind = "not_json"
              THEN [RequestDone(ret, RequestFailed(NotJsonMessage))
                        EXCEPT !.timer = "cleared", !.kind = kind]
              ELSE [ret EXCEPT !.pc = "body_wait", !.timer = "cleared", !.kind = kind]
    /\ UNCHANGED <<now, cache, requestCount, requestWindow, permits, clientVars>>

\* the body arrives and response.json() resolves
BodyArrives ==
    /\ ret.op = "makeRequest" /\ ret.pc = "body_wait"
    /\ ret' = RequestDone(ret, makeRequestEnd(ret.kind))
    /\ UNCHANGED <<now, cache, requestCount, requestWindow, permits, clientVars>>

\* the connection fails: fetch, or the read of the body of a 2xx response, rejects
NetworkFails ==
    /\ ret.op = "makeRequest"
    /\ ret.pc = "fetch_wait" \/ (ret.pc = "body_wait" /\ ret.kind = "ok")
    /\ ret' = RequestDone(ret, makeRequestEnd("network"))
    /\ UNCHANGED <<now, cache, requestCount, requestWindow, permits, clientVars>>

\* the timer set by setTimeout(..., API_TIMEOUT) fires: controller.abort()
\* rejects the fetch with an AbortError, which the catch turns into the
\* timed-out error.  A timer that clearTimeout has cleared never fires.
TimerFires ==
    /\ ret.op = "makeRequest" /\ ret.timer = "armed"
    /\ now - ret.startedAt >= API_TIMEOUT
    /\ ret' = [RequestDone(ret, makeRequestEnd("timeout")) EXCEPT !.timer = "fired"]
    /\ UNCHANGED <<now, cache, requestCount, requestWindow, permits, clientVars>>

NextRequest ==
    \/ RequestTick
    \/ \E url \in RequestUrls(config) : MakeRequest(url)
    \/ \E kind \in ResponseKinds : ResponseArrives(kind)
    \/ BodyArrives
    \/ NetworkFails
    \/ TimerFires

\* time passes, and a timer that is due fires; nothing obliges the server
\* or the network to act
SpecRequest ==
    /\ InitRequest
    /\ [][NextRequest]_vars
    /\ WF_vars(RequestTick)
    /\ WF_vars(TimerFires)

-----------------------------------------------------------------------------
(* Properties of the cache (SpecCache) *)

\* the age, at the last get, of the entry that get found
AgeAtCall == ret.at - ret.entry.timestamp

\* C1: getCachedData never serves an entry whose age has reached
\* CACHE_DURATION: what it returns is the data of the entry found under the
\* key, stored less than CACHE_DURATION ago; for an older entry it returns
\* null and the entry is gone from the cache.  An entry's timestamp is the
\* clock reading of the set that stored it.
C1_NoStaleValueServed ==
    /\ ret.op = "get" =>
        /\ ret.hit =>
                /\ ret.found
                /\ ret.result = ret.entry.data
                /\ AgeAtCall < CACHE_DURATION
        /\ (ret.found /\ AgeAtCall >= CACHE_DURATION) =>
                /\ ~ret.hit
                /\ ret.key \notin CacheKeysOf(cache)
    /\ ret.op = "set" =>
        /\ IndexOf(cache, ret.key) # 0
        /\ cache[IndexOf(cache, ret.key)] =
                [key |-> ret.key, data |-> ret.data, timestamp |-> ret.at]
    /\ \A i \in 1..Len(cache) : cache[i].timestamp <= now

\* a get found an entry aged exactly CACHE_DURATION, returned null and dropped it
C1_Witness ==
    /\ ret.op = "get"
    /\ ret.found
    /\ AgeAtCall = CACHE_DURATION
    /\ ~ret.hit
    /\ ret.key \notin CacheKeysOf(cache)

\* C2: setCachedData(k, v) immediately followed by getCachedData(k) returns
\* v at every clock reading, and a get that finds the entry more than
\* CACHE_DURATION after it was set returns a miss.
C2_SetThenGetReturnsValue ==
    [][/\ (ret.op = "set" /\ ret'.op = "get" /\ ret'.key = ret.key /\ ret'.at = ret.at)
            => (ret'.hit /\ ret'.result = ret.data)
       /\ (ret'.op = "get" /\ ret'.found /\ ret'.at - ret'.entry.timestamp > CACHE_DURATION)
            => ~ret'.hit]_vars

\* C3: the cache never holds more than MAX_CACHE_SIZE entries.
C3_CacheSizeBounded == Len(cache) <= MAX_CACHE_SIZE

\* a set of a key that was already present, made at capacity
C3_Witness ==
    /\ ret.op = "set"
    /\ Len(ret.before) = MAX_CACHE_SIZE
    /\ ret.key \in CacheKeysOf(ret.before)
    /\ cache # ret.before

\* the entries of the cache before the last set whose keys the set removed
Evicted == {i \in 1..Len(ret.before) : ret.before[i].key \notin CacheKeysOf(cache)}

\* C4: a set of a new key at capacity removes exactly one entry, one with
\* the minimum timestamp, and leaves the others as they were.
C4_EvictsSingleOldest ==
    (ret.op = "set" /\ Len(ret.before) = MAX_CACHE_SIZE
                    /\ ret.key \notin CacheKeysOf(ret.before)) =>
        /\ Cardinality(Evicted) = 1
        /\ \A i \in Evicted : \A j \in 1..Len(ret.before) :
                ret.before[i].timestamp <= ret.before[j].timestamp
        /\ \A j \in (1..Len(ret.before)) \ Evicted : ret.before[j] \in Range(cache)

\* a new key set at capacity: the strictly oldest entry went, the newer one stayed
C4_Witness ==
    /\ ret.op = "set"
    /\ Len(ret.before) = MAX_CACHE_SIZE
    /\ ret.key \notin CacheKeysOf(ret.before)
    /\ ret.before[1].timestamp < ret.before[2].timestamp
    /\ Evicted = {1}
    /\ ret.before[2] \in Range(cache)

-----------------------------------------------------------------------------
(* Properties of the rate limiter (SpecRate) *)

\* the number of permitted calls made at a time in lo..hi
PermitsIn(log, lo, hi) ==
    Cardinality({i \in 1..Len(log) : lo <= log[i] /\ log[i] <= hi})

\* the permits logged before the last call
PermitsBefore == IF ret.ok THEN SubSeq(permits, 1, Len(permits) - 1) ELSE permits

\* C5: inside a window a call is permitted exactly when fewer than
\* maxRequestsPerMinute calls were permitted since the window started (so N
\* calls pass and call N+1 throws); a call made after the window elapsed is
\* permitted.
C5_CeilingPerWindow ==
    ret.op = "checkRateLimit" =>
        LET elapsed == ret.at - ret.windowBefore > oneMinute
            used == PermitsIn(PermitsBefore, ret.windowBefore, ret.at)
        IN  ret.ok <=> (elapsed \/ used < maxRequestsPerMinute)

\* a call thrown out at the ceiling, and the next call, made after the window, let through
C5_Witness ==
    /\ ret.op = "checkRateLimit" /\ ret.ok /\ ret.afterThrow
    /\ ret.at - ret.windowBefore > oneMinute
    /\ PermitsIn(PermitsBefore, ret.windowBefore, ret.at) = maxRequestsPerMinute

\* C6: in every 60-second interval at most maxRequestsPerMinute calls are permitted.
C6_RollingWindow ==
    \A s \in RateInstants :
        PermitsIn(permits, s, s + oneMinute - 1) <= maxRequestsPerMinute

\* C6 as amended: the window is fixed and reset lazily; at most
\* maxRequestsPerMinute calls are permitted since the window started, and a
\* 60-second interval holds at most twice that many.
C6_FixedWindow ==
    /\ PermitsIn(permits, requestWindow, now) <= maxRequestsPerMinute
    /\ \A s \in RateInstants :
            PermitsIn(permits, s, s + oneMinute) <= 2 * maxRequestsPerMinute

\* two full windows' worth of permits within two milliseconds
C6_Witness ==
    \E s \in RateInstants : PermitsIn(permits, s, s + 1) = 2 * maxRequestsPerMinute

-----------------------------------------------------------------------------
(* Properties of the URL validator (SpecUrl) *)

\* C8: validateUrl accepts a URL only if its scheme is https and the host
\* the request goes to is in the allow-list (a listed host or a subdomain of
\* one); an http:// URL and a protocol-relative //host/path with a host
\* outside the list are rejected.
C8_HttpsAndAllowListOnly ==
    (ret.op = "validateUrl" /\ ret.ok) =>
        /\ ret.url.scheme # "http:"
        /\ TargetProtocol(ret.url) = "https:"
        /\ HostAllowed(TargetHost(ret.url))

-----------------------------------------------------------------------------
(* Properties of the client (SpecClient) *)

\* the sub-requests of a call that go through makeRequest
RequestLegs(c) == {calls[c].current, calls[c].forecast, calls[c].search}

\* the sub-requests for which makeRequest was called
Attempted(leg) == leg.state # "idle" /\ leg.url # NoUrl

\* C7: a fetch is issued only after checkRateLimit and validateUrl of the
\* fetched URL both succeeded in the same makeRequest call; when either one
\* fails there is no fetch.  Every fetch has its own permitted rate check.
C7_ChecksBeforeFetch ==
    /\ \A c \in Calls : \A leg \in RequestLegs(c) :
            /\ leg.fetched => (leg.rateOk /\ leg.urlOk /\ validateUrl(leg.url))
            /\ (Attempted(leg) /\ (~leg.rateOk \/ ~validateUrl(leg.url))) =>
                    (~leg.fetched /\ leg.state = "failed")
    /\ Cardinality({<<c, k>> \in Calls \X {"current", "forecast", "search"} :
                        calls[c][k].fetched}) <= Len(permits)

\* one request fetched, another one stopped by the rate limit, a third
\* stopped by the URL check or fetched as well
C7_Witness ==
    \E c, d \in Calls :
        /\ calls[c].current.fetched /\ calls[c].forecast.fetched
        /\ Attempted(calls[d].current) /\ ~calls[d].current.rateOk
        /\ ~calls[d].current.fetched

\* C9: a rate-limit or URL-validation failure of a sub-request reaches the
\* caller of getCompleteWeatherData / searchCities as a failure of the same kind.
C9_GuardFailuresPropagate ==
    \A c \in Calls : \A leg \in RequestLegs(c) :
        (calls[c].pc = "done" /\ leg.state = "failed"
                              /\ ErrorKind(leg.error) \in {"rate_limit", "validation"}) =>
            /\ calls[c].outcome = "threw"
            /\ ErrorKind(calls[c].error) = ErrorKind(leg.error)

\* C10: in a call made with a city name, the forecast request and the UV
\* lookup are started only once the current-weather leg has completed.
C10_CurrentBeforeLegs ==
    \A c \in Calls :
        (calls[c].op = "complete" /\ calls[c].location.city # "") =>
            /\ (calls[c].forecast.state # "idle" \/ calls[c].uv.state # "idle") =>
                    calls[c].current.state = "done"
            /\ calls[c].pc = "current_wait" =>
                    (calls[c].current.state = "pending" /\ calls[c].forecast.state = "idle"
                                                         /\ calls[c].uv.state = "idle")

\* a city call whose current weather came over the network and whose
\* forecast request is now in flight, the UV lookup done
C10_Witness ==
    \E c \in Calls :
        /\ calls[c].op = "complete" /\ calls[c].location.city # ""
        /\ calls[c].current.fetched /\ calls[c].current.state = "done"
        /\ calls[c].forecast.state = "pending"
        /\ calls[c].uv.state = "done"

\* C11: when the current-weather request of a call made with a city fails
\* (the provider answers 404, the fetch times out, a guard stops it), the
\* call fails with the error of that request, and no forecast request and no
\* UV lookup is ever made for the call.
C11_CurrentFailureStopsCall ==
    \A c \in Calls :
        (calls[c].op = "complete" /\ calls[c].location.city # ""
                                  /\ calls[c].current.state = "failed") =>
            /\ calls[c].forecast = IdleLeg
            /\ calls[c].uv = IdleLeg
            /\ calls[c].pc \in {"current_ready", "done"}
            /\ calls[c].pc = "done" =>
                    /\ calls[c].outcome = "threw"
                    /\ calls[c].error = calls[c].current.error
                    /\ calls[c].result = NoData

\* a city call ended with the provider's 404 and made one request only
C11_Witness ==
    \E c \in Calls :
        /\ calls[c].op = "complete" /\ calls[c].location.city # ""
        /\ calls[c].current.fetched /\ calls[c].current.state = "failed"
        /\ calls[c].pc = "done" /\ calls[c].outcome = "threw"
        /\ calls[c].error = RequestFailed(NotFoundMessage)
        /\ ErrorKind(calls[c].error) = "provider"
        /\ ~calls[c].forecast.fetched

\* C12: a call whose UV value is not a live measurement (getUVIndex gives
\* the estimate, there being no live source) does not throw on that account:
\* it returns a result that carries simulated: true and the UV value of the
\* estimator for the coordinates of the current weather.  (getUVIndex cannot
\* reject, so the handler that would turn its error into uvi: null never runs.)
C12_UVFallbackFlagged ==
    \A c \in Calls :
        (calls[c].op = "complete" /\ calls[c].pc = "done" /\ calls[c].uv.state = "done"
                                  /\ calls[c].forecast.state = "done") =>
            /\ calls[c].outcome = "returned"
            /\ calls[c].result.uvi = calls[c].uv.data.uvi
            /\ "simulated" \in DOMAIN calls[c].result
            /\ calls[c].result.simulated = calls[c].uv.data.simulated

\* C13: when the forecast leg of a call fails (its request fails, or a guard
\* or the coordinate check stops it), the call ends by throwing the
\* forecast's error and returns no result, the UV lookup having succeeded
\* or not.
C13_ForecastFailureIsFatal ==
    \A c \in Calls :
        (calls[c].op = "complete" /\ calls[c].forecast.state = "failed") =>
            /\ calls[c].pc \in {"legs_ready", "done"}
            /\ calls[c].outcome # "returned"
            /\ calls[c].result = NoData
            /\ calls[c].pc = "done" =>
                    /\ calls[c].outcome = "threw"
                    /\ calls[c].error = calls[c].forecast.error

\* a call with current weather and UV value in hand that threw the timeout
\* of its forecast request
C13_Witness ==
    \E c \in Calls :
        /\ calls[c].op = "complete" /\ calls[c].pc = "done"
        /\ calls[c].current.state = "done" /\ calls[c].uv.state = "done"
        /\ calls[c].forecast.fetched /\ calls[c].forecast.state = "failed"
        /\ calls[c].outcome = "threw" /\ calls[c].error = <<TimedOutMessage>>

-----------------------------------------------------------------------------
(* Properties of retries (SpecRetry) *)

\* a call made with a city that got its current weather and threw its
\* forecast's error
FailedOnForecast(call) ==
    /\ call.op = "complete" /\ call.location.city # ""
    /\ call.pc = "done" /\ call.outcome = "threw"
    /\ call.current.state = "done"
    /\ call.forecast.state = "failed"

\* the leg was answered by the cache: makeRequest was not called for it
ServedFromCache(leg) == leg.state = "done" /\ ~Attempted(leg) /\ ~leg.fetched

\* the entry stored under the key is in the cache and younger than CACHE_DURATION
EntryAlive(key) ==
    /\ key \in CacheKeysOf(cache)
    /\ now - cache[IndexOf(cache, key)].timestamp < CACHE_DURATION

\* in this step call d, a later call for the city of the failed call c, starts
RetryStarts(c, d) ==
    /\ c < d
    /\ FailedOnForecast(calls[c])
    /\ calls[d].pc = "idle" /\ calls'[d].op = "complete"
    /\ calls'[d].location = calls[c].location

\* in this step call d, a later call for the city of the failed call c, goes
\* on from its current weather
RetryGoesOn(c, d) ==
    /\ c < d
    /\ FailedOnForecast(calls[c])
    /\ calls[d].op = "complete" /\ calls[d].location = calls[c].location
    /\ calls[d].pc = "current_ready" /\ calls'[d].pc # "current_ready"

\* C14: after a call for a city failed on its forecast, a later call for the
\* same city made less than CACHE_DURATION after the first one fetches no
\* current weather and goes on to the forecast.
C14_RetrySkipsCurrent ==
    [][\A c, d \in Attempts :
        /\ (RetryStarts(c, d) /\ now < CACHE_DURATION) =>
                ~calls'[d].current.fetched
        /\ (RetryGoesOn(c, d) /\ now < CACHE_DURATION) =>
                calls'[d].forecast.state # "idle"]_vars

\* C14 as amended: the later call makes no current-weather request when the
\* current weather the failed call obtained is still in the cache under the
\* city's key, younger than CACHE_DURATION: it takes the entry's data and
\* uses no rate slot.  When it goes on, it calls makeRequest for the forecast
\* of the city's coordinates unless the cache holds that forecast, and for
\* nothing else.
C14_RetryReusesCachedCurrent ==
    [][\A c, d \in Attempts :
        LET key == getCacheKey("current", calls[c].location.city) IN
        /\ (RetryStarts(c, d) /\ EntryAlive(key)
                              /\ cache[IndexOf(cache, key)].data = calls[c].current.data) =>
                /\ ServedFromCache(calls'[d].current)
                /\ calls'[d].current.data = calls[c].current.data
                /\ calls'[d].pc = "current_ready"
                /\ permits' = permits
                /\ requestCount' = requestCount
        /\ (RetryGoesOn(c, d) /\ ServedFromCache(calls[d].current)
                              /\ calls[d].current.data = calls[c].current.data) =>
                LET coord == CityCoord(calls[c].location.city)
                    forecastKey == getCacheKey("forecast", CoordText(coord.lat, coord.lon))
                IN  /\ calls'[d].current = calls[d].current
                    /\ calls'[d].search = IdleLeg
                    /\ calls'[d].forecast.key = forecastKey
                    /\ IF EntryAlive(forecastKey)
                       THEN ServedFromCache(calls'[d].forecast)
                       ELSE /\ Attempted(calls'[d].forecast)
                            /\ calls'[d].forecast.url =
                                    ForecastByCoordsUrl(config, coord.lat, coord.lon)]_vars

\* a call failed on its forecast; the next call for the city took the
\* current weather from the cache and has its forecast request in flight
C14_Witness ==
    \E c, d \in Attempts :
        /\ c < d
        /\ FailedOnForecast(calls[c]) /\ calls[c].current.fetched
        /\ calls[d].op = "complete" /\ calls[d].location = calls[c].location
        /\ ServedFromCache(calls[d].current)
        /\ calls[d].forecast.fetched /\ calls[d].forecast.state = "pending"
        /\ Len(permits) = 3

-----------------------------------------------------------------------------
(* Properties of the city search (SpecSearch) *)

\* calls c and d, in this order, are searchCities calls with the same
\* cleaned query of two characters or more
SameSearch(c, d) ==
    /\ c < d
    /\ calls[c].op = "search" /\ calls[d].op = "search"
    /\ calls[c].query = calls[d].query
    /\ Len(calls[c].query) >= 2

\* C15: of two searchCities calls with the same query made within the
\* debounce window, the second one sends no request of its own, the first
\* one's request being answered already or still in flight, and it returns
\* the result of the first.
C15_DebounceSharesRequest ==
    \A c, d \in Calls :
        (SameSearch(c, d) /\ calls[d].startedAt - calls[c].startedAt < DebounceWindow) =>
            /\ ~calls[d].search.fetched
            /\ (calls[c].pc = "done" /\ calls[d].pc = "done") =>
                    calls[d].result = calls[c].result

\* in this step call d, a searchCities call with the query of the ended call
\* c, is made, more than the debounce window after c was made
SearchAgain(c, d) ==
    /\ c < d
    /\ calls[c].op = "search" /\ calls[c].pc = "done"
    /\ Len(calls[c].query) >= 2
    /\ calls[d].pc = "idle" /\ calls'[d].op = "search"
    /\ calls'[d].query = calls[c].query
    /\ now - calls[c].startedAt > DebounceWindow

\* C16: a searchCities call made after an identical call has completed, more
\* than the debounce window after it, sends a request of its own, so that
\* the two calls make two requests.
C16_SecondSearchRequests ==
    [][\A c, d \in Calls :
        (SearchAgain(c, d) /\ calls[c].search.fetched) => calls'[d].search.fetched]_vars

\* C16 as amended: such a call is answered from the cache, without a request
\* and without a rate slot, while the result stored for the query is in the
\* cache and younger than CACHE_DURATION; it calls makeRequest only when
\* there is no such entry (the first call failed, or its entry has expired).
C16_SecondSearchUsesCache ==
    [][\A c, d \in Calls :
        SearchAgain(c, d) =>
            LET key == getCacheKey("cities", calls[c].query) IN
            IF EntryAlive(key)
            THEN /\ ~Attempted(calls'[d].search)
                 /\ calls'[d].pc = "done" /\ calls'[d].outcome = "returned"
                 /\ calls'[d].result = cache[IndexOf(cache, key)].data
                 /\ permits' = permits
                 /\ requestCount' = requestCount
            ELSE Attempted(calls'[d].search)]_vars

\* two identical searches, the second made past the debounce window and
\* answered from the cache with the list the first one fetched: one request
C16_Witness ==
    \E c, d \in Calls :
        /\ SameSearch(c, d)
        /\ calls[c].search.fetched /\ calls[c].search.state = "done"
        /\ calls[d].pc = "done" /\ ~Attempted(calls[d].search)
        /\ calls[d].startedAt - calls[c].startedAt > DebounceWindow
        /\ lastSearch.time = calls[d].startedAt
        /\ calls[d].result = calls[c].result /\ calls[d].result # EmptyList
        /\ Len(permits) = 1

\* C17: a searchCities call whose query, once trimmed, has fewer than two
\* characters returns an empty list at once; it makes no request and leaves
\* requestCount, requestWindow, the cache and the debounce state as they were.
C17_ShortQueryNoRequest ==
    [][\A c \in Calls :
        (calls[c].pc = "idle" /\ calls'[c].op = "search" /\ Len(calls'[c].query) < 2) =>
            /\ calls'[c].pc = "done" /\ calls'[c].outcome = "returned"
            /\ calls'[c].result = EmptyList
            /\ calls'[c].search = IdleLeg
            /\ requestCount' = requestCount
            /\ requestWindow' = requestWindow
            /\ permits' = permits
            /\ cache' = cache
            /\ lastSearch' = lastSearch]_vars

\* a one-letter search that returned the empty list after another search
\* had used a rate slot: the count is still one
C17_Witness ==
    \E c, d \in Calls :
        /\ c < d
        /\ calls[c].op = "search" /\ calls[c].search.fetched
        /\ calls[d].op = "search" /\ calls[d].query = "l"
        /\ calls[d].pc = "done" /\ calls[d].result = EmptyList
        /\ calls[d].search = IdleLeg
        /\ requestCount = 1 /\ Len(permits) = 1

\* C18: the limit in the URL that searchCities hands to makeRequest is an
\* integer from 1 to 5, whatever limit the caller passed.
C18_LimitClamped ==
    \A c \in Calls :
        (calls[c].op = "search" /\ Attempted(calls[c].search)) =>
            calls[c].search.url \in {SearchUrl(config, calls[c].query, n) : n \in 1..5}

-----------------------------------------------------------------------------
(* The frame of the rate limiter (SpecRate) *)

\* C19: a checkRateLimit call that throws leaves requestCount and
\* requestWindow as they were.  The two fields change only in a call that is
\* permitted: the count goes up by one, or, when more than a minute has
\* passed since requestWindow, the window restarts at the clock reading of
\* the call and the count restarts at one.
C19_ThrowLeavesWindow ==
    [][/\ (ret'.op = "checkRateLimit" /\ ~ret'.ok) =>
                /\ requestCount' = ret'.countBefore
                /\ requestWindow' = ret'.windowBefore
       /\ (ret'.op = "checkRateLimit" /\ ret'.ok) =>
                IF ret'.at - ret'.windowBefore > oneMinute
                THEN requestCount' = 1 /\ requestWindow' = ret'.at
                ELSE /\ requestCount' = ret'.countBefore + 1
                     /\ requestWindow' = ret'.windowBefore
       /\ (requestCount' # requestCount \/ requestWindow' # requestWindow) =>
                /\ ret'.op = "checkRateLimit" /\ ret'.ok
                /\ ret'.countBefore = requestCount
                /\ ret'.windowBefore = requestWindow]_vars

\* a call refused at the ceiling exactly one minute after the window started
C19_Witness ==
    /\ ret.op = "checkRateLimit" /\ ~ret.ok
    /\ ret.at - ret.windowBefore = oneMinute
    /\ requestCount = maxRequestsPerMinute /\ requestCount = ret.countBefore
    /\ requestWindow = ret.windowBefore

-----------------------------------------------------------------------------
(* Properties of the UV estimate (SpecUV) *)

\* C20: estimateUVIndex returns 0 when the local hour is before 6 or after
\* 18, at every latitude from -90 to 90 and in every month.
C20_NightIsZero ==
    (ret.op = "estimateUVIndex" /\ (ret.hour < 6 \/ ret.hour > 18)) => ret.uvi = 0

\* the estimate made for latitude 20 at two in the morning in June is 0
C20_Witness ==
    /\ ret.op = "estimateUVIndex"
    /\ ret.lat = 20 /\ ret.hour = 2 /\ ret.month = 5
    /\ ret.uvi = 0

\* C21: the value estimateUVIndex returns is a whole number from 0 to 11,
\* at every latitude from -90 to 90, every hour 0..23 and every month.
C21_EstimateInRange ==
    ret.op = "estimateUVIndex" => ret.uvi \in 0..11

\* the largest estimate: 10, at the equator at noon in July
C21_Witness ==
    /\ ret.op = "estimateUVIndex"
    /\ ret.lat = 0 /\ ret.hour = 12 /\ ret.month = 6
    /\ ret.uvi = 10

-----------------------------------------------------------------------------
(* Properties of a single request (SpecRequest) *)

\* C22: every request makeRequest has started completes: it returns the
\* body or fails, at the latest when the timeout fires, even if the server
\* never answers or never finishes the body.
C22_RequestCompletes ==
    (IF ret.op = "makeRequest" THEN ret.pc # "done" ELSE FALSE)
        ~> (IF ret.op = "makeRequest" THEN ret.pc = "done" ELSE FALSE)

-----------------------------------------------------------------------------
(* More properties of retries (SpecRetry) *)

\* C23: a current-weather body without coord, on which
\* getCompleteWeatherData fails, is not kept in the cache, and the next call
\* for the same city asks for the current weather again.
C23_MalformedNotCached ==
    /\ \A i \in 1..Len(cache) :
            cache[i].data.kind = "current" => cache[i].data.hasCoord
    /\ \A c, d \in Attempts :
            (d = c + 1 /\ calls[c].op = "complete" /\ calls[c].location.city # ""
                       /\ calls[c].pc = "done" /\ calls[c].error = <<NoCoordMessage>>
                       /\ calls[d].op = "complete"
                       /\ calls[d].location = calls[c].location) =>
                Attempted(calls[d].current)

-----------------------------------------------------------------------------
(* More properties of a single request (SpecRequest) *)

\* C24: a makeRequest call that validateUrl rejects uses no rate slot:
\* requestCount is after the call what it was before, and no permit is logged.
C24_RejectedUrlUsesNoSlot ==
    [][(ret'.op = "makeRequest" /\ ret' # ret
                                /\ ret'.error = RequestFailed(InvalidUrlMessage)) =>
            /\ requestCount' = requestCount
            /\ permits' = permits]_vars

-----------------------------------------------------------------------------
(* More properties of the client (SpecClient) *)

\* the location names a place: a city, or a latitude from -90 to 90 with a
\* longitude from -180 to 180
ValidLocation(location) ==
    \/ location.city # ""
    \/ /\ location.lat \in (0 - 90)..90
       /\ location.lon \in (0 - 180)..180

\* C25: getCompleteWeatherData rejects a location as invalid exactly when it
\* names no place; a coordinate pair in range is accepted, latitude 0 and
\* longitude 0 included.
C25_ZeroCoordinatesAccepted ==
    \A c \in Calls :
        (calls[c].op = "complete" /\ calls[c].pc = "done") =>
            (calls[c].error \in {<<InvalidLocationMessage>>, <<InvalidCoordinatesMessage>>}
                <=> ~ValidLocation(calls[c].location))

-----------------------------------------------------------------------------
(* The dashboard: WeatherDashboard.loadWeatherByCity and
   loadWeatherByCoordinates of js/app.js, invoked while earlier loads still
   wait for getCompleteWeatherData.  Load c waits for call c; the code of a
   load that follows its await runs as soon as the call has ended. *)

\* loadWeatherByCity('London') and loadWeatherByCoordinates(10, 20)
DashboardLocations == {Location("London", NoNumber, NoNumber), Location("", 10, 20)}

NoLocation == [kind |-> "none"]
LoadingShown == [kind |-> "loading"]
UnableToLoadMessage == "Unable to load weather for location. "

\* `during` observes the loads that were waiting when this one was invoked
IdleLoad == [pc |-> "idle", location |-> NoLocation, error |-> NoError, during |-> {}]

\* the fields the constructor of WeatherDashboard sets, the text the elements
\* show, and the loads
NewDashboard ==
    [op |-> "WeatherDashboard", currentLocation |-> NoLocation, weatherData |-> NoData,
     lastUpdateTime |-> 0, shown |-> NoData, loads |-> [c \in Calls |-> IdleLoad]]

InitDashboard ==
    /\ now = 1
    /\ cache = cleanCache(<<>>, now)
    /\ requestCount = 0
    /\ requestWindow = now
    /\ ret = NoCall
    /\ permits = <<>>
    /\ config = "direct"
    /\ lastSearch = NoSearch
    /\ calls = [c \in Calls |-> IdleCall]
    /\ app = NewDashboard

DashboardTick ==
    /\ \E t \in ClientInstants : t > now /\ now' = t
    /\ UNCHANGED <<cache, requestCount, requestWindow, ret, permits, clientVars>>

\* a load from `await weatherAPI.getCompleteWeatherData(...)` on, once call
\* `call` has ended: the assignments and updateUI, or the catch that throws
\* again; hideLoadingStates changes nothing.  Until the call ends the load waits.
AfterLoadAwait(a, c, call, t) ==
    IF call.pc # "done" THEN a
    ELSE IF call.outcome = "returned"
    THEN [a EXCEPT !.weatherData = call.result,
                   !.currentLocation = a.loads[c].location,
                   !.lastUpdateTime = t,
                   !.shown = call.result,
                   !.loads[c].pc = "returned"]
    ELSE [a EXCEPT !.loads[c].pc = "threw",
                   !.loads[c].error = <<UnableToLoadMessage>> \o call.error]

\* loadWeatherByCity(cityName) / loadWeatherByCoordinates(lat, lon) up to the
\* await
LoadWeather(c, location) ==
    /\ StartComplete(c, location)
    /\ app' = AfterLoadAwait(
                [app EXCEPT !.shown = LoadingShown,
                            !.loads[c] = [IdleLoad EXCEPT !.pc = "waiting",
                                            !.location = location,
                                            !.during = {d \in Calls : app.loads[d].pc = "waiting"}]],
                c, calls'[c], now)

LoadAfterCurrent(c, hour, month) ==
    /\ AfterCurrent(c, hour, month)
    /\ app' = AfterLoadAwait(app, c, calls'[c], now)

LoadFinish(c) ==
    /\ Finish(c)
    /\ app' = AfterLoadAwait(app, c, calls'[c], now)

NextDashboard ==
    \/ DashboardTick
    \/ \E c \in Calls, location \in DashboardLocations : LoadWeather(c, location)
    \/ \E c \in Calls, outcome \in Outcomes : CurrentSettles(c, outcome)
    \/ \E c \in Calls, hour \in LocalHours, month \in LocalMonths : LoadAfterCurrent(c, hour, month)
    \/ \E c \in Calls, outcome \in Outcomes \ {"no_coord"} : ForecastSettles(c, outcome)
    \/ \E c \in Calls : LoadFinish(c)

SpecDashboard == InitDashboard /\ [][NextDashboard]_vars

\* C26: when a load is invoked for one location and then, before it has
\* completed, a load for another, then once both have completed weatherData
\* and currentLocation are those of the load invoked last, in whatever order
\* the responses arrived.
C26_LatestLoadWins ==
    (/\ app.loads[1].pc = "returned"
     /\ app.loads[2].pc = "returned"
     /\ 1 \in app.loads[2].during)
    => /\ app.currentLocation = app.loads[2].location
       /\ app.weatherData = calls[2].result

-----------------------------------------------------------------------------
(* The secure app: SecureWeatherApp.loadWeatherData and loadDefaultLocation
   of js/app.js over AppState.isLoading.  An invocation that passes the guard
   makes the next getCompleteWeatherData call and waits for it; its code after
   the await runs as soon as the call has ended. *)

MaxLoads == 3       \* invocations of loadWeatherData
Loads == 1..MaxLoads

\* the city a user searches for or picks from the suggestions
SearchedCities == {"London"}

FailedToLoadMessage == "Failed to load weather data"
UnableToLoadDefaultMessage == "Unable to load weather data. Please search for a city manually."

\* `during` observes the invocations that were waiting when this one was made
IdleSecureLoad ==
    [pc |-> "idle", city |-> "", call |-> 0, outcome |-> "none", during |-> {}]

\* AppState, what the page displays, the messages Utils.showError has shown,
\* the invocations of loadWeatherData, and where loadDefaultLocation is
NewSecureApp ==
    [op |-> "SecureWeatherApp", isLoading |-> FALSE, forecastData |-> NoData,
     displayed |-> NoData, errors |-> <<>>,
     loads |-> [i \in Loads |-> IdleSecureLoad],
     default |-> [pc |-> "idle", load |-> 0, tried |-> <<>>]]

InitSecureApp ==
    /\ now = 1
    /\ cache = cleanCache(<<>>, now)
    /\ requestCount = 0
    /\ requestWindow = now
    /\ ret = NoCall
    /\ permits = <<>>
    /\ config = "direct"
    /\ lastSearch = NoSearch
    /\ calls = [c \in Calls |-> IdleCall]
    /\ app = NewSecureApp

SecureAppTick ==
    /\ \E t \in ClientInstants : t > now /\ now' = t
    /\ UNCHANGED <<cache, requestCount, requestWindow, ret, permits, clientVars>>

\* error.message || 'Failed to load weather data'
ShownMessage(error) == IF error = NoError THEN <<FailedToLoadMessage>> ELSE error

\* loadWeatherData from `await ...getCompleteWeatherData({ city })` on, for the
\* invocation that waits for call c, once that call has ended: the display of
\* the data, or the catch that shows the error; the finally block either way.
\* The catch ends normally, so the invocation returns in both cases.
AfterSecureAwait(a, c, call) ==
    IF call.pc # "done" \/ ~(\E i \in Loads : a.loads[i].pc = "waiting" /\ a.loads[i].call = c)
    THEN a
    ELSE LET i == CHOOSE i \in Loads : a.loads[i].pc = "waiting" /\ a.loads[i].call = c IN
         IF call.outcome = "returned"
         THEN [a EXCEPT !.forecastData = call.result.forecast,
                        !.displayed = call.result,
                        !.isLoading = FALSE,
                        !.loads[i].pc = "returned",
                        !.loads[i].outcome = "loaded"]
         ELSE [a EXCEPT !.errors = Append(@, ShownMessage(call.error)),
                        !.isLoading = FALSE,
                        !.loads[i].pc = "returned",
                        !.loads[i].outcome = "failed"]

\* loadWeatherData without the test of AppState.isLoading
loadWeatherDataUnguarded(a, i, city) ==
    /\ a.loads[i].pc = "idle"
    /\ \A j \in 1..(i - 1) : a.loads[j].pc # "idle"
    /\ \E c \in Calls :
          /\ StartComplete(c, Location(city, NoNumber, NoNumber))
          /\ app' = AfterSecureAwait(
                      [a EXCEPT !.isLoading = TRUE,
                                !.displayed = LoadingShown,
                                !.loads[i] = [IdleSecureLoad EXCEPT !.pc = "waiting",
                                                !.city = city, !.call = c,
                                                !.during = {j \in Loads : a.loads[j].pc = "waiting"}]],
                      c, calls'[c])

\* loadWeatherData(city), invocation i, up to the await; `a` is the app as the
\* caller leaves it
loadWeatherData(a, i, city) ==
    /\ a.loads[i].pc = "idle"
    /\ \A j \in 1..(i - 1) : a.loads[j].pc # "idle"
    /\ IF a.isLoading
       THEN /\ app' = [a EXCEPT !.loads[i] = [IdleSecureLoad EXCEPT !.pc = "returned",
                                                !.city = city, !.outcome = "skipped",
                                                !.during = {j \in Loads : a.loads[j].pc = "waiting"}]]
            /\ UNCHANGED <<now, cache, requestCount, requestWindow, ret, permits,
                           config, lastSearch, calls>>
       ELSE \E c \in Calls :
               /\ StartComplete(c, Location(city, NoNumber, NoNumber))
               /\ app' = AfterSecureAwait(
                           [a EXCEPT !.isLoading = TRUE,
                                     !.displayed = LoadingShown,
                                     !.loads[i] = [IdleSecureLoad EXCEPT !.pc = "waiting",
                                                     !.city = city, !.call = c,
                                                     !.during = {j \in Loads : a.loads[j].pc = "waiting"}]],
                           c, calls'[c])

\* handleSearch / selectCity: they run after the page's start-up code, which
\* calls initialize
HandleSearch(i, city) ==
    /\ app.default.pc # "idle"
    /\ loadWeatherData(app, i, city)

\* loadDefaultLocation up to `await this.loadWeatherData('Mumbai')`
LoadDefaultLocation ==
    /\ app.default.pc = "idle"
    /\ loadWeatherData([app EXCEPT !.default = [pc |-> "Mumbai", load |-> 1, tried |-> <<"Mumbai">>]],
                       1, "Mumbai")

\* loadDefaultLocation after an await: it goes on to Delhi, or to the error,
\* when the awaited invocation threw
LoadDefaultResumes ==
    /\ app.default.pc \in {"Mumbai", "Delhi"}
    /\ app.loads[app.default.load].pc \in {"returned", "threw"}
    /\ IF app.loads[app.default.load].pc = "threw" /\ app.default.pc = "Mumbai"
       THEN \E i \in Loads :
               loadWeatherData([app EXCEPT !.default = [pc |-> "Delhi", load |-> i,
                                                          tried |-> <<"Mumbai", "Delhi">>]],
                               i, "Delhi")
       ELSE /\ app' = IF app.loads[app.default.load].pc = "threw"
                      THEN [app EXCEPT !.default.pc = "done",
                                       !.errors = Append(@, <<UnableToLoadDefaultMessage>>)]
                      ELSE [app EXCEPT !.default.pc = "done"]
            /\ UNCHANGED <<now, cache, requestCount, requestWindow, ret, permits,
                           config, lastSearch, calls>>

SecureAfterCurrent(c, hour, month) ==
    /\ AfterCurrent(c, hour, month)
    /\ app' = AfterSecureAwait(app, c, calls'[c])

SecureFinish(c) ==
    /\ Finish(c)
    /\ app' = AfterSecureAwait(app, c, calls'[c])

NextSecureApp ==
    \/ SecureAppTick
    \/ LoadDefaultLocation
    \/ LoadDefaultResumes
    \/ \E i \in Loads, city \in SearchedCities : HandleSearch(i, city)
    \/ \E c \in Calls, outcome \in Outcomes : CurrentSettles(c, outcome)
    \/ \E c \in Calls, hour \in LocalHours, month \in LocalMonths : SecureAfterCurrent(c, hour, month)
    \/ \E c \in Calls, outcome \in Outcomes \ {"no_coord"} : ForecastSettles(c, outcome)
    \/ \E c \in Calls : SecureFinish(c)

SpecSecureApp == InitSecureApp /\ [][NextSecureApp]_vars

WaitingLoads == {i \in Loads : app.loads[i].pc = "waiting"}

\* an invocation of loadWeatherData is made in this step while another one waits
InvokedDuringLoad(i) ==
    /\ app.loads[i].pc = "idle"
    /\ app'.loads[i].pc # "idle"
    /\ WaitingLoads # {}

\* C27: loadWeatherData is mutually exclusive through AppState.isLoading: at
\* most one invocation is past the guard at any time; isLoading is true
\* exactly while one is, so it is false again after a success and after a
\* failure; and an invocation made while another is in flight returns at once
\* without starting a call or issuing a request.
C27_LoadingIsExclusive ==
    /\ [](/\ Cardinality(WaitingLoads) <= 1
          /\ app.isLoading <=> (WaitingLoads # {}))
    /\ [][\A i \in Loads :
            InvokedDuringLoad(i) =>
                /\ app'.loads[i].pc = "returned"
                /\ app'.loads[i].outcome = "skipped"
                /\ UNCHANGED <<calls, cache, requestCount, requestWindow, permits>>]_vars

\* an invocation was skipped while the first one waited; the first one failed,
\* and the one made afterwards passed the guard and loaded its data
C27_Witness ==
    /\ app.op = "SecureWeatherApp"
    /\ app.loads[1].outcome = "failed"
    /\ app.loads[2].outcome = "skipped"
    /\ app.loads[2].during = {1}
    /\ app.loads[3].outcome = "loaded"
    /\ ~app.isLoading

\* C28: when the load of the first default city, Mumbai, fails,
\* loadDefaultLocation attempts a load of Delhi before it ends (and shows the
\* 'unable to load' error only after both have failed).
C28_DelhiAfterMumbaiFails ==
    (/\ app.default.pc = "done"
     /\ app.loads[1].outcome = "failed")
    => app.default.tried = <<"Mumbai", "Delhi">>

-----------------------------------------------------------------------------
(* The rate limiter of the secure service: SecureWeatherService.checkRateLimit
   of js/app.js and js/app-secure.js, called at any clock reading *)

requestLimit == 3   \* this.requestLimit (js/app.js:821, 100 there), kept small so that the limit is hit
MaxSlots == 8       \* the clock is sampled every twenty minutes, this many times

oneHour == 60 * 60 * 1000
twentyMinutes == 20 * 60 * 1000

\* Date.now() is far from 0 when the page runs
PageLoadTime == 10 * oneHour
SecureInstants == {PageLoadTime + k * twentyMinutes : k \in 0..MaxSlots}

\* checkRateLimit() at time t with the counters as given: whether it returns
\* (ok) or throws, and the counters afterwards
SecureCheckRateLimit(count, last, t) ==
    LET hourAgo == t - oneHour
        counted == IF last < hourAgo THEN 0 ELSE count
    IN  IF counted >= requestLimit
        THEN [ok |-> FALSE, requestCount |-> counted, lastRequestTime |-> last]
        ELSE [ok |-> TRUE, requestCount |-> counted + 1, lastRequestTime |-> t]

\* the times among `times` that lie in the sixty minutes up to t
InPrecedingHour(times, t) == SelectSeq(times, LAMBDA p : p >= t - oneHour)

\* the counters the constructor sets; `permitted` observes the times of the
\* calls let through in the last hour and `last` the latest call
NewSecureService ==
    [op |-> "SecureWeatherService", requestCount |-> 0, lastRequestTime |-> 0,
     permitted |-> <<>>, last |-> NoCall]

InitSecureRate ==
    /\ now = PageLoadTime
    /\ cache = cleanCache(<<>>, now)
    /\ requestCount = 0
    /\ requestWindow = now
    /\ ret = NoCall
    /\ permits = <<>>
    /\ config = "direct"
    /\ lastSearch = NoSearch
    /\ calls = [c \in Calls |-> IdleCall]
    /\ app = NewSecureService

SecureRateTick ==
    /\ \E t \in SecureInstants : t > now /\ now' = t
    /\ UNCHANGED <<cache, requestCount, requestWindow, ret, permits, clientVars>>

\* one call of checkRateLimit, as buildWeatherUrl makes it
SecureCheck ==
    LET r == SecureCheckRateLimit(app.requestCount, app.lastRequestTime, now)
        recent == InPrecedingHour(app.permitted, now)
    IN
    /\ app' = [app EXCEPT !.requestCount = r.requestCount,
                          !.lastRequestTime = r.lastRequestTime,
                          !.permitted = IF r.ok THEN Append(recent, now) ELSE recent,
                          !.last = [op |-> "checkRateLimit", at |-> now, ok |-> r.ok,
                                    recent |-> Len(recent)]]
    /\ UNCHANGED <<now, cache, requestCount, requestWindow, ret, permits,
                   config, lastSearch, calls>>

NextSecureRate ==
    \/ SecureRateTick
    \/ SecureCheck

SpecSecureRate == InitSecureRate /\ [][NextSecureRate]_vars

\* C29: checkRateLimit of the secure service enforces its limit per hour: it
\* rejects a call only if as many calls as the limit have been permitted in
\* the sixty minutes before it.
C29_RejectsOnlyOverLimit ==
    (IF app.last.op = "checkRateLimit" THEN ~app.last.ok ELSE FALSE)
    => app.last.recent >= requestLimit

-----------------------------------------------------------------------------
(* The weather proxy: handler of api/weather.js.  A text is the sequence of
   its characters; a request is handled up to the fetch of the upstream URL,
   and answered when the fetch settles. *)

MAX_CITY_LENGTH == 100   \* the 100 of substring(0, 100)

RECURSIVE Repeat(_, _)
Repeat(ch, n) == IF n = 0 THEN <<>> ELSE <<ch>> \o Repeat(ch, n - 1)

\* the characters the pattern /^[a-zA-Z\s\-'.,()]+$/ admits, among those the
\* model writes texts with
PatternCharacters == {"a", "Z", " ", "-", "'", ".", ",", "(", ")"}

\* String.prototype.trim
RECURSIVE TrimStart(_)
TrimStart(s) == IF s # <<>> /\ Head(s) = " " THEN TrimStart(Tail(s)) ELSE s
RECURSIVE TrimEnd(_)
TrimEnd(s) == IF s # <<>> /\ s[Len(s)] = " " THEN TrimEnd(SubSeq(s, 1, Len(s) - 1)) ELSE s
TrimText(s) == TrimEnd(TrimStart(s))

\* String.prototype.substring(0, n)
Substring0(s, n) == SubSeq(s, 1, Min(n, Len(s)))

\* /^[a-zA-Z\s\-'.,()]+$/.test(s)
MatchesCityPattern(s) == s # <<>> /\ \A k \in 1..Len(s) : s[k] \in PatternCharacters

\* encodeURIComponent, character by character, and the decoding the upstream
\* server applies to the query string
EncodeCharacter(ch) ==
    CASE ch = " " -> "%20"
      [] ch = "," -> "%2C"
      [] ch = "<" -> "%3C"
      [] OTHER -> ch
DecodeCharacter(tok) ==
    CASE tok = "%20" -> " "
      [] tok = "%2C" -> ","
      [] tok = "%3C" -> "<"
      [] OTHER -> tok
EncodeText(s) == [k \in 1..Len(s) |-> EncodeCharacter(s[k])]
DecodeText(s) == [k \in 1..Len(s) |-> DecodeCharacter(s[k])]

\* req.query.city: absent, or a text of letters with or without a leading
\* blank and a last character of another kind
NoCity == [given |-> FALSE, text |-> <<>>]
CityLengths == {0, 1, 2, MAX_CITY_LENGTH, MAX_CITY_LENGTH + 1}
CityTexts ==
    {lead \o Repeat("a", n) \o tail :
        lead \in {<<>>, <<" ">>}, n \in CityLengths, tail \in {<<>>, <<"-">>, <<"<">>}}
ProxyCities == {NoCity} \cup {[given |-> TRUE, text |-> s] : s \in CityTexts}

\* req.query.lat and lon: absent (NoNumber) or the text of a number
ProxyLats == {NoNumber, 10, 91}
ProxyLons == {NoNumber, 20, 181}
ProxyTypes == {"weather", "forecast", "onecall"}
ProxyMethods == {"GET", "OPTIONS"}

\* what the upstream fetch does
ProxyOutcomes == {"ok", "http404", "timeout", "network", "not_json"}

NoUpstream == [by |-> "none"]
NoReply == [status |-> 0, error |-> ""]

\* !city: absent or the empty text
FalsyCity(city) == ~city.given \/ city.text = <<>>

InitProxy ==
    /\ now = 1
    /\ cache = cleanCache(<<>>, now)
    /\ requestCount = 0
    /\ requestWindow = now
    /\ ret = NoCall
    /\ permits = <<>>
    /\ config = "direct"
    /\ lastSearch = NoSearch
    /\ calls = [c \in Calls |-> IdleCall]
    /\ \E method \in ProxyMethods, hasKey \in BOOLEAN, city \in ProxyCities,
          lat \in ProxyLats, lon \in ProxyLons, type \in ProxyTypes :
          app = [op |-> "handler", pc |-> "start",
                 req |-> [method |-> method, city |-> city, lat |-> lat, lon |-> lon,
                          type |-> type],
                 hasKey |-> hasKey, upstream |-> NoUpstream, res |-> NoReply]

Replied(a, status, error) ==
    [a EXCEPT !.pc = "replied", !.res = [status |-> status, error |-> error]]

\* handler(req, res) up to `await fetch(url, ...)`
Handler ==
    LET req == app.req
        sanitizedCity == Substring0(TrimText(req.city.text), MAX_CITY_LENGTH)
        endpoint == IF req.type = "forecast" THEN "forecast" ELSE "weather"
    IN
    /\ app.pc = "start"
    /\ app' =
        IF req.method = "OPTIONS" THEN Replied(app, 200, "")
        ELSE IF ~app.hasKey THEN Replied(app, 500, "API key not configured")
        ELSE IF FalsyCity(req.city) /\ (req.lat = NoNumber \/ req.lon = NoNumber)
        THEN Replied(app, 400, "Either city name or coordinates (lat, lon) are required")
        ELSE IF ~FalsyCity(req.city) /\ Len(sanitizedCity) < 2
        THEN Replied(app, 400, "City name must be at least 2 characters")
        ELSE IF ~FalsyCity(req.city) /\ ~MatchesCityPattern(sanitizedCity)
        THEN Replied(app, 400, "City name contains invalid characters")
        ELSE IF (req.lat # NoNumber \/ req.lon # NoNumber)
                /\ (IsNaN(req.lat) \/ req.lat < 0 - 90 \/ req.lat > 90)
        THEN Replied(app, 400, "Invalid latitude. Must be between -90 and 90")
        ELSE IF (req.lat # NoNumber \/ req.lon # NoNumber)
                /\ (IsNaN(req.lon) \/ req.lon < 0 - 180 \/ req.lon > 180)
        THEN Replied(app, 400, "Invalid longitude. Must be between -180 and 180")
        ELSE IF req.type \notin {"weather", "forecast"}
        THEN Replied(app, 400, "Invalid type. Must be weather or forecast")
        ELSE IF req.lat # NoNumber /\ req.lon # NoNumber
        THEN [app EXCEPT !.pc = "fetch_wait",
                         !.upstream = [by |-> "coordinates", endpoint |-> endpoint,
                                       lat |-> req.lat, lon |-> req.lon]]
        ELSE [app EXCEPT !.pc = "fetch_wait",
                         !.upstream = [by |-> "city", endpoint |-> endpoint,
                                       q |-> EncodeText(req.city.text)]]
    /\ UNCHANGED <<now, cache, requestCount, requestWindow, ret, permits,
                   config, lastSearch, calls>>

\* handler from the settling of the fetch on
UpstreamSettles(outcome) ==
    /\ app.pc = "fetch_wait"
    /\ app' = CASE outcome = "ok" -> Replied(app, 200, "")
                [] outcome = "http404" -> Replied(app, 404, "Location not found")
                [] outcome = "timeout" -> Replied(app, 408, "Request timeout")
                [] outcome = "network" -> Replied(app, 503, "Weather service unavailable")
                [] outcome = "not_json" -> Replied(app, 500, "Failed to fetch weather data")
    /\ UNCHANGED <<now, cache, requestCount, requestWindow, ret, permits,
                   config, lastSearch, calls>>

NextProxy ==
    \/ Handler
    \/ \E outcome \in ProxyOutcomes : UpstreamSettles(outcome)

SpecProxy == InitProxy /\ [][NextProxy]_vars

\* the validation the handler states: trimmed length 2..100 and only the
\* admitted characters
SatisfiesCityValidation(s) ==
    /\ Len(TrimText(s)) >= 2
    /\ Len(TrimText(s)) <= MAX_CITY_LENGTH
    /\ MatchesCityPattern(TrimText(s))

\* C30: the city the proxy forwards upstream itself satisfies the validation
\* (trimmed length 2..100, admitted characters only); a GET request whose
\* city violates it is answered 400 and no upstream request is made.
C30_ForwardedCityIsValid ==
    /\ app.upstream.by = "city" => SatisfiesCityValidation(DecodeText(app.upstream.q))
    /\ (/\ app.pc # "start"
        /\ app.req.method = "GET"
        /\ app.hasKey
        /\ ~FalsyCity(app.req.city)
        /\ ~SatisfiesCityValidation(app.req.city.text))
       => (app.res.status = 400 /\ app.upstream = NoUpstream)

====
